---- MODULE Spec2Model ----
(***************************************************************************)
(* A model of the velo branching controller (elitan/velo).                 *)
(*                                                                         *)
(* Part I   the state store's save protocol and its lock file              *)
(*          (StateManager.save / acquireLock / releaseLock), several       *)
(*          controller processes, each an OS process with its own pid.     *)
(* Part II  the controller commands over the state document, the ZFS       *)
(*          datasets and snapshots, and the containers.                    *)
(***************************************************************************)
EXTENDS Integers, Sequences, FiniteSets, TLC

\* ------------------------------------------------------------------ bounds
\* Controller processes that run concurrently.
NProcs == 2
\* Saves one controller process performs before it exits (lock model).
MaxSaves == 2

Procs == 1..NProcs
\* The pid of a controller process that died earlier while holding the lock.
StalePid == 0
Pids == Procs \cup {StalePid}

\* acquireLock's maxAttempts. The code's value is 50 (50 * 100 ms); the loop
\* behaves alike for every value, and the model runs it with a small one.
maxAttempts == 3

NoFile == [kind |-> "ENOENT"]
\* A file that does not hold one complete JSON document: empty after the
\* open(O_TRUNC) of writeFile, a prefix of the text, or two writers' text mixed.
Partial == [kind |-> "partial"]

VARIABLES
  \* ---- the files beside state.json
  lockFile,     \* NoFile, or LockOf(creating pid, has the pid been written)
  tmpFile,      \* state.json.tmp: NoFile, Partial or a document
  primaryFile,  \* state.json: NoFile, Partial or a document
  backupFile,   \* state.json.backup
  \* ---- the processes
  alive,        \* [Pids -> BOOLEAN]: process.kill(pid, 0) succeeds
  spc,          \* [Procs -> position in save()]
  attempt,      \* [Procs -> acquireLock's loop counter]
  seenPid,      \* [Procs -> the pid read from the lock file]
  fd,           \* [Procs -> where the inode opened by writeFile(tempFile) is linked]
  saveErr,      \* [Procs -> an error is pending inside save's try block]
  nsaves,       \* [Procs -> saves started]
  saveResult,   \* [Procs -> outcome of the last save]
  lockLog       \* [Procs -> what the running acquireLock has done so far]

lockVars == <<lockFile, tmpFile, primaryFile, backupFile, alive, spc, attempt,
              seenPid, lockLog, fd, saveErr, nsaves, saveResult>>

\* The lock file created by `pid`, before and after the pid is written into it.
LockOf(pid, w) == [kind |-> "lock", creator |-> pid, written |-> w]

\* The document process p serialises in its n-th save (JSON.stringify(this.state)).
DocOf(p, n) == [kind |-> "doc", by |-> p, n |-> n]
InitialDoc == [kind |-> "doc", by |-> 0, n |-> 0]



\* ------------------------------------------------- Part II: data and world
\* Commands one controller process runs one after the other.
MaxSeqCmds == 5
\* Commands NProcs concurrent controller processes run in total.
MaxConcCmds == 3
\* External calls (zfs, docker, file system) the environment fails in one run.
MaxFaults == 1

Null == 0
Main == <<"main">>
ProjectNames == {<<"a">>, <<"b">>}
BranchNames == {<<"dev">>, <<"feat">>, <<"fix">>}

VARIABLES
  \* ---- the world outside the state file
  datasets,     \* ZFS datasets: set of [name, origin (snapshot cloned from), mounted]
  zsnaps,       \* ZFS snapshots: set of [ds, stamp]
  containers,   \* docker containers: set of [name, status (created, running,
                \*   healthy: running and the database ready, exited)]
  \* ---- the controller processes running commands
  pc,           \* [Procs -> position in the command]
  cmd,          \* [Procs -> the command line being run]
  mem,          \* [Procs -> StateManager.state: NoFile (null) or a document]
  loc,          \* [Procs -> the command's local variables]
  outcome,      \* [Procs -> how the last command ended]
  pre,          \* [Procs -> state.json when the command started]
  made,         \* [Procs -> resources the command has created, and whether
                \*           the environment failed one of its compensators]
  overlap,      \* [Procs -> processes whose last command ran while this one's did]
  ncmds,        \* commands started
  nfaults,      \* external calls failed by the environment
  run           \* who runs: [procs, cmds, projects, faults, ports]

cmdVars == <<datasets, zsnaps, containers, pc, cmd, mem, loc, outcome, pre,
             made, overlap, ncmds, nfaults, run>>
lockOnlyVars == <<lockFile, tmpFile, alive, spc, attempt, seenPid, lockLog, fd, saveErr,
                  nsaves, saveResult>>
vars == <<lockVars, cmdVars>>

\* ---- names
buildNamespace(project, branch) == <<project, branch>>
getDatasetName(project, branch) == project \o branch
getContainerName(project, branch) == <<"velo">> \o project \o branch
NoSnap == [ds |-> <<>>, stamp |-> 0]
FullSnapshotName(ds, stamp) == [ds |-> ds, stamp |-> stamp]

\* ---- sequences
SetMax(S) == IF S = {} THEN 0 ELSE CHOOSE x \in S : \A y \in S : y <= x
Range(s) == {s[i] : i \in DOMAIN s}
\* Array.prototype.findIndex given the indices that pass the test, 0 for -1.
FirstIndex(I) == IF I = {} THEN 0 ELSE CHOOSE i \in I : \A j \in I : i <= j
\* Array.prototype.splice(index, 1)
Splice(s, i) == SubSeq(s, 1, i - 1) \o SubSeq(s, i + 1, Len(s))
RECURSIVE Concat(_)
Concat(ss) == IF ss = <<>> THEN <<>> ELSE Head(ss) \o Concat(Tail(ss))

\* ---- the state document
EmptyDoc == [kind |-> "doc", projects |-> <<>>, snapshots |-> <<>>]
IsDoc(f) == f.kind = "doc"
listAll(doc) == Concat([i \in DOMAIN doc.projects |-> doc.projects[i].branches])
AllBranches(doc) == IF IsDoc(doc) THEN Range(listAll(doc)) ELSE {}
ProjectIndexByName(doc, name) ==
  FirstIndex({i \in DOMAIN doc.projects : doc.projects[i].name = name})
ProjectIndexById(doc, id) ==
  FirstIndex({i \in DOMAIN doc.projects : doc.projects[i].id = id})
BranchIndexById(project, id) ==
  FirstIndex({i \in DOMAIN project.branches : project.branches[i].id = id})
BranchIndexByName(project, name) ==
  FirstIndex({i \in DOMAIN project.branches : project.branches[i].name = name})
\* BranchRepository.getByNamespace: the first project holding a branch of the name.
NamespaceIndex(doc, name) ==
  FirstIndex({i \in DOMAIN doc.projects : BranchIndexByName(doc.projects[i], name) # 0})
\* The name check with its loop started one element late.
HasProjectNamedFromSecond(doc, name) ==
  \E i \in DOMAIN doc.projects : i > 1 /\ doc.projects[i].name = name
\* ProjectRepository.add / getByName: is the name taken.
HasProjectNamed(doc, name) == \E i \in DOMAIN doc.projects : doc.projects[i].name = name
\* BranchRepository.add / branch create: is the branch name taken in the project.
HasBranchNamed(project, name) ==
  \E i \in DOMAIN project.branches : project.branches[i].name = name

\* StateManager.validate. The names seen are collected over all projects.
validate(doc) ==
  /\ \A i, j \in DOMAIN doc.projects :
       i # j => doc.projects[i].name # doc.projects[j].name
  /\ \A i \in DOMAIN doc.projects :
       LET q == doc.projects[i] IN
       /\ \E k \in DOMAIN q.branches : q.branches[k].isPrimary
       /\ \A k \in DOMAIN q.branches :
            /\ Len(q.branches[k].name) > 1          \* name.includes('/')
            /\ q.branches[k].projectName = q.name
  /\ \A k, l \in DOMAIN listAll(doc) :
       k # l => listAll(doc)[k].name # listAll(doc)[l].name

\* Every id a document mentions.
IdsOf(doc) ==
  IF ~IsDoc(doc) THEN {}
  ELSE {q.id : q \in Range(doc.projects)}
       \cup {b.id : b \in AllBranches(doc)}
       \cup {b.parentBranchId : b \in AllBranches(doc)}
       \cup {s.id : s \in Range(doc.snapshots)}
       \cup {s.branchId : s \in Range(doc.snapshots)}
\* generateUUID: a value no document in the file or in a process's memory holds.
generateUUID == 1 + SetMax(IdsOf(primaryFile) \cup UNION {IdsOf(mem[q]) : q \in Procs})

StampsOf(doc) ==
  IF ~IsDoc(doc) THEN {}
  ELSE {b.snapshotName.stamp : b \in AllBranches(doc)}
       \cup {s.zfsSnapshot.stamp : s \in Range(doc.snapshots)}
       \cup {s.createdAt : s \in Range(doc.snapshots)}
\* formatTimestamp(new Date()): later than every time stamp taken before.
formatTimestamp ==
  1 + SetMax({s.stamp : s \in zsnaps} \cup {d.origin.stamp : d \in datasets}
             \cup StampsOf(primaryFile) \cup UNION {StampsOf(mem[q]) : q \in Procs}
             \cup {loc[q].snap.stamp : q \in Procs})
\* new Date() read before the snapshot is taken.
DateBeforeSnapshot == {formatTimestamp - 2}
\* new Date(): the time of the latest reading of the clock, or a later one.
NewDate == {formatTimestamp - 1, formatTimestamp}

\* ---- ZFS
DatasetNames == {d.name : d \in datasets}
datasetExists(name) == name \in DatasetNames
\* What `zfs destroy -R` of the datasets S destroys: S, their snapshots and the
\* clones of those snapshots, recursively.
RECURSIVE Dependents(_)
Dependents(S) ==
  LET T == S \cup {d.name : d \in {e \in datasets : e.origin.ds \in S}}
  IN  IF T = S THEN S ELSE Dependents(T)
DatasetsAfterDestroy(name) == {d \in datasets : d.name \notin Dependents({name})}
SnapsAfterDestroy(name) == {s \in zsnaps : s.ds \notin Dependents({name})}
RenamedSnap(s, from, to) == IF s.ds = from THEN [s EXCEPT !.ds = to] ELSE s
DatasetsAfterRename(from, to) ==
  {[d EXCEPT !.name = IF d.name = from THEN to ELSE d.name,
             !.origin = RenamedSnap(d.origin, from, to)] : d \in datasets}
\* The datasets after zfs mount (m) or zfs unmount (~m) of the dataset `name`;
\* 'already mounted' and 'not mounted' are ignored.
SetMounted(name, m) ==
  {IF d.name = name THEN [d EXCEPT !.mounted = m] ELSE d : d \in datasets}
SnapsAfterRename(from, to) == {RenamedSnap(s, from, to) : s \in zsnaps}
\* ------------------------------------------------- Part I: save and its lock
\* History of one save, kept for the properties only: did its acquireLock
\* unlink the lock file of a process that was alive, how many of its attempts
\* slept on the lock file of a process that was already gone, and what was at
\* the path of state.json when its rename replaced it.
NoLog == [removedLive |-> FALSE, deadWaits |-> 0, replaced |-> NoFile]
OwnerIsAlive == lockFile # NoFile /\ alive[lockFile.creator]
OwnerIsDead == lockFile # NoFile /\ ~alive[lockFile.creator]

\* save() is entered: acquireLock's loop starts at attempt 0.
StartSave(p) ==
  /\ alive[p] /\ spc[p] = "idle" /\ nsaves[p] < MaxSaves
  /\ nsaves' = [nsaves EXCEPT ![p] = @ + 1]
  /\ attempt' = [attempt EXCEPT ![p] = 0]
  /\ spc' = [spc EXCEPT ![p] = "try"]
  /\ saveResult' = [saveResult EXCEPT ![p] = "none"]
  /\ lockLog' = [lockLog EXCEPT ![p] = NoLog]
  /\ UNCHANGED <<lockFile, tmpFile, primaryFile, backupFile, alive, seenPid, fd, saveErr>>
  /\ UNCHANGED cmdVars

\* The loop condition attempt < maxAttempts.
LoopCondition(p) == attempt[p] < maxAttempts

\* The loop is left: throw 'Failed to acquire state lock after 5 seconds'.
\* acquireLock is called before save's try block, so nothing is released.
LockTimeout(p) ==
  /\ alive[p] /\ spc[p] = "try" /\ ~LoopCondition(p)
  /\ spc' = [spc EXCEPT ![p] = "idle"]
  /\ saveResult' = [saveResult EXCEPT ![p] = "lock_timeout"]
  /\ UNCHANGED <<lockFile, tmpFile, primaryFile, backupFile, alive, attempt, seenPid, lockLog,
                 fd, saveErr, nsaves>>
  /\ UNCHANGED cmdVars

\* fs.writeFile(lockFile, pid, {flag: 'wx'}): the exclusive create. The file
\* exists, empty, before the pid is written into it.
TryCreate(p) ==
  /\ alive[p] /\ spc[p] = "try" /\ LoopCondition(p)
  /\ IF lockFile = NoFile
       THEN /\ lockFile' = LockOf(p, FALSE)
            /\ spc' = [spc EXCEPT ![p] = "wpid"]
       ELSE /\ spc' = [spc EXCEPT ![p] = "read"]      \* EEXIST
            /\ UNCHANGED lockFile
  /\ UNCHANGED <<tmpFile, primaryFile, backupFile, alive, attempt, seenPid, lockLog, fd,
                 saveErr, nsaves, saveResult>>
  /\ UNCHANGED cmdVars

\* The second half of that writeFile: the pid goes into the file this process
\* created (which another process may have unlinked meanwhile); acquireLock returns.
WritePid(p) ==
  /\ alive[p] /\ spc[p] = "wpid"
  /\ lockFile' = IF lockFile # NoFile /\ lockFile.creator = p
                   THEN LockOf(p, TRUE) ELSE lockFile
  /\ spc' = [spc EXCEPT ![p] = "open_tmp"]
  /\ UNCHANGED <<tmpFile, primaryFile, backupFile, alive, attempt, seenPid, lockLog, fd,
                 saveErr, nsaves, saveResult>>
  /\ UNCHANGED cmdVars

\* await Bun.sleep(100), then the loop's attempt++.
SleepAndRetry(p) ==
  /\ attempt' = [attempt EXCEPT ![p] = @ + 1]
  /\ spc' = [spc EXCEPT ![p] = "try"]

\* parseInt(await fs.readFile(lockFile)): a missing file throws into the inner
\* catch, an empty file parses to NaN; both sleep and retry.
ReadLock(p) ==
  /\ alive[p] /\ spc[p] = "read"
  /\ IF lockFile = NoFile \/ ~lockFile.written
       THEN /\ SleepAndRetry(p) /\ UNCHANGED seenPid
            /\ lockLog' = [lockLog EXCEPT ![p].deadWaits =
                             IF OwnerIsDead THEN @ + 1 ELSE @]
       ELSE /\ seenPid' = [seenPid EXCEPT ![p] = lockFile.creator]
            /\ spc' = [spc EXCEPT ![p] = "probe"]
            /\ UNCHANGED <<attempt, lockLog>>
  /\ UNCHANGED <<lockFile, tmpFile, primaryFile, backupFile, alive, fd, saveErr,
                 nsaves, saveResult>>
  /\ UNCHANGED cmdVars

\* process.kill(lockPid, 0): the holder lives: sleep; it is gone: remove the lock.
Probe(p) ==
  /\ alive[p] /\ spc[p] = "probe"
  /\ IF alive[seenPid[p]]
       THEN SleepAndRetry(p)
       ELSE spc' = [spc EXCEPT ![p] = "unlink"] /\ UNCHANGED attempt
  /\ UNCHANGED <<lockFile, tmpFile, primaryFile, backupFile, alive, seenPid, lockLog, fd,
                 saveErr, nsaves, saveResult>>
  /\ UNCHANGED cmdVars

\* fs.unlink(lockFile).catch(() => {}); continue: whatever file is at the path
\* now is removed, and the for loop's attempt++ runs.
UnlinkStale(p) ==
  /\ alive[p] /\ spc[p] = "unlink"
  /\ lockFile' = NoFile
  /\ attempt' = [attempt EXCEPT ![p] = @ + 1]
  /\ spc' = [spc EXCEPT ![p] = "try"]
  /\ lockLog' = [lockLog EXCEPT ![p].removedLive = @ \/ OwnerIsAlive]
  /\ UNCHANGED <<tmpFile, primaryFile, backupFile, alive, seenPid, fd, saveErr,
                 nsaves, saveResult>>
  /\ UNCHANGED cmdVars

\* An error thrown inside save's try block: the finally releases the lock.
Throw(p) ==
  /\ saveErr' = [saveErr EXCEPT ![p] = TRUE]
  /\ spc' = [spc EXCEPT ![p] = "release"]
  /\ fd' = [fd EXCEPT ![p] = "none"]

\* fs.writeFile(tempFile, ...) opens state.json.tmp with O_CREAT|O_TRUNC.
OpenTmp(p) ==
  /\ alive[p] /\ spc[p] = "open_tmp"
  /\ \/ /\ tmpFile' = Partial
        /\ fd' = [fd EXCEPT ![p] = "tmp"]
        /\ spc' = [spc EXCEPT ![p] = "write_tmp"]
        /\ UNCHANGED saveErr
     \/ Throw(p) /\ UNCHANGED tmpFile
  /\ UNCHANGED <<lockFile, primaryFile, backupFile, alive, attempt, seenPid, lockLog,
                 nsaves, saveResult>>
  /\ UNCHANGED cmdVars

\* What a file holds after `doc` is written from offset 0 into `old`: the
\* document when the file was empty; over another writer's text, the document
\* or a mix of both, depending on the lengths.
Written(old, doc) ==
  IF old \in {Partial, NoFile, doc} THEN {doc} ELSE {doc, Partial}

\* The write of writeFile, into the inode it opened, wherever that inode is
\* linked now; then open/sync/close of the temp file.
WriteTmp(p) ==
  /\ alive[p] /\ spc[p] = "write_tmp"
  /\ \/ /\ \E c \in Written(IF fd[p] = "tmp" THEN tmpFile ELSE primaryFile,
                            DocOf(p, nsaves[p])) :
             /\ tmpFile' = IF fd[p] = "tmp" THEN c ELSE tmpFile
             /\ primaryFile' = IF fd[p] = "primary" THEN c ELSE primaryFile
        /\ fd' = [fd EXCEPT ![p] = "none"]
        /\ spc' = [spc EXCEPT ![p] = "backup"]
        /\ UNCHANGED saveErr
     \/ Throw(p) /\ UNCHANGED <<tmpFile, primaryFile>>
  /\ UNCHANGED <<lockFile, backupFile, alive, attempt, seenPid, lockLog, nsaves, saveResult>>
  /\ UNCHANGED cmdVars

\* try { access(filePath); copyFile(filePath, backupFile) } catch {}: an error
\* of either call is swallowed and the save goes on.
Backup(p) ==
  /\ alive[p] /\ spc[p] = "backup"
  /\ \/ primaryFile # NoFile /\ backupFile' = primaryFile
     \/ UNCHANGED backupFile
  /\ spc' = [spc EXCEPT ![p] = "rename"]
  /\ UNCHANGED <<lockFile, tmpFile, primaryFile, alive, attempt, seenPid, lockLog, fd,
                 saveErr, nsaves, saveResult>>
  /\ UNCHANGED cmdVars

\* fs.rename(tempFile, filePath): atomic; every open descriptor follows its inode.
Rename(p) ==
  /\ alive[p] /\ spc[p] = "rename"
  /\ \/ /\ tmpFile # NoFile
        /\ primaryFile' = tmpFile
        /\ tmpFile' = NoFile
        /\ fd' = [q \in Procs |-> CASE fd[q] = "tmp" -> "primary"
                                    [] fd[q] = "primary" -> "gone"
                                    [] OTHER -> fd[q]]
        /\ spc' = [spc EXCEPT ![p] = "dirsync"]
        /\ lockLog' = [lockLog EXCEPT ![p].replaced = primaryFile]
        /\ UNCHANGED saveErr
     \/ Throw(p) /\ UNCHANGED <<tmpFile, primaryFile, lockLog>>
  /\ UNCHANGED <<lockFile, backupFile, alive, attempt, seenPid, nsaves, saveResult>>
  /\ UNCHANGED cmdVars

\* open/sync/close of the directory.
DirSync(p) ==
  /\ alive[p] /\ spc[p] = "dirsync"
  /\ \/ spc' = [spc EXCEPT ![p] = "release"] /\ UNCHANGED <<saveErr, fd>>
     \/ Throw(p)
  /\ UNCHANGED <<lockFile, tmpFile, primaryFile, backupFile, alive, attempt,
                 seenPid, lockLog, nsaves, saveResult>>
  /\ UNCHANGED cmdVars

\* releaseLock: fs.unlink(lockFile), errors ignored; save returns or rethrows.
ReleaseLock(p) ==
  /\ alive[p] /\ spc[p] = "release"
  /\ lockFile' = NoFile
  /\ spc' = [spc EXCEPT ![p] = "idle"]
  /\ saveResult' = [saveResult EXCEPT ![p] = IF saveErr[p] THEN "error" ELSE "ok"]
  /\ saveErr' = [saveErr EXCEPT ![p] = FALSE]
  /\ UNCHANGED <<tmpFile, primaryFile, backupFile, alive, attempt, seenPid, lockLog, fd, nsaves>>
  /\ UNCHANGED cmdVars

\* The controller process ends (its command returned) or is killed at any point.
ProcessEnds(p) ==
  /\ alive[p]
  /\ alive' = [alive EXCEPT ![p] = FALSE]
  /\ fd' = [fd EXCEPT ![p] = "none"]
  /\ UNCHANGED <<lockFile, tmpFile, primaryFile, backupFile, spc, attempt, seenPid, lockLog,
                 saveErr, nsaves, saveResult>>
  /\ UNCHANGED cmdVars

\* StateManager.restoreFromBackup, run by a process no other process competes
\* with: acquireLock creates the lock file at its first attempt, access(backup)
\* throws 'No backup file found' or copyFile(backup, state.json) runs and load()
\* parses the restored file into this.state; the finally releases the lock.
\* copyFile is no atomic replacement: when it fails, state.json is as before
\* or holds a part of the backup.
restoreFromBackup(p) ==
  /\ p \in run.procs /\ alive[p] /\ spc[p] = "idle" /\ ncmds < run.cmds
  /\ lockFile = NoFile
  /\ ncmds' = ncmds + 1
  /\ \/ /\ backupFile = NoFile
        /\ saveResult' = [saveResult EXCEPT ![p] = "no_backup"]
        /\ UNCHANGED <<primaryFile, mem>>
     \/ /\ backupFile # NoFile
        /\ primaryFile' = backupFile
        /\ IF IsDoc(backupFile)
           THEN /\ mem' = [mem EXCEPT ![p] = backupFile]
                /\ saveResult' = [saveResult EXCEPT ![p] = "restored"]
           ELSE /\ saveResult' = [saveResult EXCEPT ![p] = "load_failed"]
                /\ UNCHANGED mem
     \/ /\ backupFile # NoFile
        /\ primaryFile' \in {primaryFile, Partial}
        /\ saveResult' = [saveResult EXCEPT ![p] = "error"]
        /\ UNCHANGED mem
  /\ UNCHANGED <<lockFile, tmpFile, backupFile, alive, spc, attempt, seenPid, lockLog,
                 fd, saveErr, nsaves>>
  /\ UNCHANGED <<datasets, zsnaps, containers, pc, cmd, loc, outcome, pre, made,
                 overlap, nfaults, run>>

\* Where a process stands inside acquireLock, and how far its loop has come:
\* every step of the loop raises this number or leaves the loop.
Acquiring == {"try", "read", "probe", "unlink"}
LoopRank(p) ==
  attempt[p] * 4 + (CASE spc[p] = "try" -> 0 [] spc[p] = "read" -> 1
                      [] spc[p] = "probe" -> 2 [] OTHER -> 3)
TimesOut(p) == saveResult[p] # "lock_timeout" /\ saveResult'[p] = "lock_timeout"

\* ------------------------------------------------- Part II: command plumbing
worldVars == <<datasets, zsnaps, containers>>
fileVars == <<primaryFile, backupFile>>

NoCmd == [op |-> "none", project |-> <<>>, branch |-> <<>>, parent |-> <<>>, force |-> FALSE]
NoOutcome == [res |-> "none", at |-> "idle", op |-> "none"]
LocInit == [pid |-> Null, bid |-> Null, snap |-> NoSnap, createdSnapshot |-> FALSE,
            rollback |-> <<>>, queue |-> <<>>, i |-> 1, err |-> "none", errAt |-> "none"]
MadeNone == [datasets |-> {}, snaps |-> {}, containers |-> {}, compensatorFailed |-> FALSE,
             registered |-> <<>>, executed |-> <<>>, checkpointed |-> FALSE,
             walDeleted |-> {}]

\* The command lines.
ProjectCreateCommands ==
  {[op |-> "project_create", project |-> q, branch |-> <<>>, parent |-> <<>>, force |-> FALSE] :
     q \in ProjectNames}
BranchCreateCommands ==
  {[op |-> "branch_create", project |-> q, branch |-> b, parent |-> s, force |-> FALSE] :
     q \in ProjectNames, b \in BranchNames, s \in BranchNames \cup {Main}}
BranchResetCommands ==
  {[op |-> "branch_reset", project |-> q, branch |-> b, parent |-> <<>>, force |-> f] :
     q \in ProjectNames, b \in BranchNames \cup {Main}, f \in BOOLEAN}
BranchDeleteCommands ==
  {[op |-> "branch_delete", project |-> q, branch |-> b, parent |-> <<>>, force |-> f] :
     q \in ProjectNames, b \in BranchNames \cup {Main}, f \in BOOLEAN}
ProjectDeleteCommands ==
  {[op |-> "project_delete", project |-> q, branch |-> <<>>, parent |-> <<>>, force |-> f] :
     q \in ProjectNames, f \in BOOLEAN}
SnapshotCreateCommands ==
  {[op |-> "snapshot_create", project |-> q, branch |-> b, parent |-> <<>>, force |-> FALSE] :
     q \in ProjectNames, b \in BranchNames \cup {Main}}

CmdInitPorts(procs, cmds, projects, faults, ports) ==
  /\ datasets = {} /\ zsnaps = {} /\ containers = {}
  /\ pc = [p \in Procs |-> "idle"]
  /\ cmd = [p \in Procs |-> NoCmd]
  /\ mem = [p \in Procs |-> NoFile]
  /\ loc = [p \in Procs |-> LocInit]
  /\ outcome = [p \in Procs |-> NoOutcome]
  /\ pre = [p \in Procs |-> NoFile]
  /\ made = [p \in Procs |-> MadeNone]
  /\ overlap = [p \in Procs |-> {}]
  /\ ncmds = 0 /\ nfaults = 0
  /\ run = [procs |-> procs, cmds |-> cmds, projects |-> projects, faults |-> faults,
            ports |-> ports]
\* Runs in which the container runtime binds the lowest free host port.
CmdInit(procs, cmds, projects, faults) == CmdInitPorts(procs, cmds, projects, faults, 0)

LockIdle ==
  /\ lockFile = NoFile /\ tmpFile = NoFile
  /\ alive = [q \in Pids |-> q # StalePid]
  /\ spc = [p \in Procs |-> "idle"]
  /\ attempt = [p \in Procs |-> 0]
  /\ seenPid = [p \in Procs |-> StalePid]
  /\ lockLog = [p \in Procs |-> NoLog]
  /\ fd = [p \in Procs |-> "none"]
  /\ saveErr = [p \in Procs |-> FALSE]
  /\ nsaves = [p \in Procs |-> 0]
  /\ saveResult = [p \in Procs |-> "none"]

\* One controller process running commands one after the other in an
\* environment that fails external calls, or NProcs processes running a few
\* commands concurrently in one that does not; velo has not been used yet.
Init ==
  /\ primaryFile = NoFile /\ backupFile = NoFile
  /\ LockIdle
  /\ \/ CmdInit({1}, MaxSeqCmds, {<<"a">>}, MaxFaults)
     \/ CmdInit(Procs, MaxConcCmds, ProjectNames, 0)

\* The environment fails an external call.
Fault == nfaults < run.faults /\ nfaults' = nfaults + 1

Goto(p, to) ==
  /\ pc' = [pc EXCEPT ![p] = to]
  /\ UNCHANGED <<outcome, cmd, pre, overlap, ncmds, run>>
  /\ UNCHANGED lockOnlyVars

\* The command ends and its process exits: "ok", "user_error" or "error".
FinishAt(p, res, at) ==
  /\ pc' = [pc EXCEPT ![p] = "idle"]
  /\ outcome' = [outcome EXCEPT ![p] = [res |-> res, at |-> at, op |-> cmd[p].op]]
  /\ mem' = [mem EXCEPT ![p] = NoFile]
  /\ loc' = [loc EXCEPT ![p] = LocInit]
  /\ UNCHANGED <<cmd, pre, overlap, ncmds, run>>
  /\ UNCHANGED lockOnlyVars

Finish(p, res) == FinishAt(p, res, pc[p])

\* An external call without an effect on the modelled world: it succeeds and
\* the command goes on, or it fails and the command ends with the error.
Call(p, to) ==
  \/ Goto(p, to) /\ UNCHANGED <<mem, loc, made, nfaults, worldVars, fileVars>>
  \/ Fault /\ Finish(p, "error") /\ UNCHANGED <<made, worldVars, fileVars>>

\* An external call throws: inside branch create's try block (try) the catch
\* block takes over, elsewhere the command ends with the error.
Throws(p, try) ==
  /\ IF try
     THEN /\ loc' = [loc EXCEPT ![p].err = "error", ![p].errAt = pc[p]]
          /\ Goto(p, "bc_rollback") /\ UNCHANGED mem
     ELSE Finish(p, "error")
  /\ UNCHANGED <<made, worldVars, fileVars>>

\* zfs.mountDataset (m) or zfs.unmountDataset (~m) of the dataset `name`,
\* inside branch create's try block (try) or in a command without a registry.
Mount(p, name, m, to, try) ==
  \/ /\ datasetExists(name)
     /\ datasets' = SetMounted(name, m)
     /\ Goto(p, to) /\ UNCHANGED <<mem, loc, made, nfaults, zsnaps, containers, fileVars>>
  \/ ~datasetExists(name) /\ UNCHANGED nfaults /\ Throws(p, try)
  \/ Fault /\ Throws(p, try)

\* docker.getContainerByName: whether a container of that name exists.
getContainerByName(name) == \E c \in containers : c.name = name
\* docker inspect says State.Status = running.
IsRunning(name) ==
  \E c \in containers : c.name = name /\ c.status \in {"running", "healthy"}
\* The host port of a container is bound while it runs.
SetStatus(name, s) ==
  {IF c.name = name
   THEN [c EXCEPT !.status = s, !.port = IF s = "exited" THEN 0 ELSE @]
   ELSE c : c \in containers}
WithoutContainers(names) == {c \in containers : c.name \notin names}
\* docker.createContainer's result: HostPort is `bind`, 0 for the empty
\* HostPort that lets the runtime assign a port at each start.
NewContainer(name, bind) == [name |-> name, status |-> "created", bind |-> bind, port |-> 0]
UsedPorts == {c.port : c \in containers} \ {0}
\* The host ports the runtime may assign: any free one of 1..run.ports, or,
\* in the runs with run.ports = 0, the lowest free one.
DynamicPorts ==
  IF run.ports = 0
  THEN {CHOOSE q \in 1..(Cardinality(containers) + 1) :
          q \notin UsedPorts /\ \A r \in 1..(q - 1) : r \in UsedPorts}
  ELSE (1..run.ports) \ UsedPorts
\* What a start binds: the configured host port when it is free, or an assigned one.
BindablePorts(c) == IF c.bind = 0 THEN DynamicPorts ELSE {c.bind} \ UsedPorts
\* docker.getContainerPort: the bound host port, 0 when inspect shows none.
getContainerPort(name) ==
  IF \E c \in containers : c.name = name /\ c.port # 0
  THEN (CHOOSE c \in containers : c.name = name).port
  ELSE 0

\* docker.startContainer; the runtime answers "already started" for a running
\* container, which the client library throws.
Start(p, name, to, try) ==
  \/ /\ getContainerByName(name) /\ ~IsRunning(name)
     /\ \E c \in containers : \E q \in BindablePorts(c) :
          /\ c.name = name
          /\ containers' = {IF d.name = name
                            THEN [d EXCEPT !.status = "running", !.port = q]
                            ELSE d : d \in containers}
     /\ Goto(p, to) /\ UNCHANGED <<mem, loc, made, nfaults, datasets, zsnaps, fileVars>>
  \/ /\ \/ ~getContainerByName(name) \/ IsRunning(name)
        \/ \E c \in containers : c.name = name /\ BindablePorts(c) = {}
     /\ UNCHANGED nfaults /\ Throws(p, try)
  \/ Fault /\ Throws(p, try)

\* docker.waitForHealthy: it returns once the container runs and pg_isready
\* succeeds in it, and throws when that has not happened within the timeout.
WaitForHealthy(p, name, to, try) ==
  \/ /\ IsRunning(name)
     /\ containers' = SetStatus(name, "healthy")
     /\ Goto(p, to) /\ UNCHANGED <<mem, loc, made, nfaults, datasets, zsnaps, fileVars>>
  \/ ~IsRunning(name) /\ UNCHANGED nfaults /\ Throws(p, try)
  \/ Fault /\ Throws(p, try)

\* createApplicationConsistentSnapshot going to the snapshot at once.
CheckpointSkipped(p, status, name, to) ==
  Goto(p, to) /\ UNCHANGED <<mem, loc, made, nfaults, worldVars, fileVars>>
\* createApplicationConsistentSnapshot up to the snapshot: when the recorded
\* status is running, getContainerByName and execSQL(CHECKPOINT), which needs
\* a running container.
Checkpoint(p, status, name, to) ==
  IF status = "running"
  THEN \/ /\ ~getContainerByName(name)
          /\ Finish(p, "user_error") /\ UNCHANGED <<made, nfaults, worldVars, fileVars>>
       \/ /\ IsRunning(name)
          /\ made' = [made EXCEPT ![p].checkpointed = TRUE]
          /\ Goto(p, to) /\ UNCHANGED <<mem, loc, nfaults, worldVars, fileVars>>
       \/ /\ getContainerByName(name) /\ ~IsRunning(name)
          /\ Finish(p, "error") /\ UNCHANGED <<made, nfaults, worldVars, fileVars>>
       \/ /\ getContainerByName(name)
          /\ Fault /\ Finish(p, "error") /\ UNCHANGED <<made, worldVars, fileVars>>
  ELSE Goto(p, to) /\ UNCHANGED <<mem, loc, made, nfaults, worldVars, fileVars>>

\* StateManager.load accepts the file: it is absent, or parses and validates.
LoadOk == primaryFile = NoFile \/ (IsDoc(primaryFile) /\ validate(primaryFile))

\* The command passed its checks and goes on with the loaded document.
Proceed(p, c, to, locals) ==
  /\ cmd' = [cmd EXCEPT ![p] = c]
  /\ pc' = [pc EXCEPT ![p] = to]
  /\ mem' = [mem EXCEPT ![p] = primaryFile]
  /\ loc' = [loc EXCEPT ![p] = locals]
  /\ outcome' = [outcome EXCEPT ![p] = NoOutcome]
  /\ overlap' = [r \in Procs |->
                   IF r = p THEN {q \in Procs \ {p} : pc[q] # "idle"}
                   ELSE IF pc[r] # "idle" THEN overlap[r] \cup {p}
                   ELSE overlap[r] \ {p}]
  /\ ncmds' = ncmds + 1

\* The command is refused before it did anything and its process exits.
Reject(p, op, res) ==
  /\ cmd' = [cmd EXCEPT ![p] = NoCmd]
  /\ outcome' = [outcome EXCEPT ![p] = [res |-> res, at |-> "load", op |-> op]]
  /\ overlap' = [r \in Procs |-> IF r = p THEN {} ELSE overlap[r] \ {p}]
  /\ UNCHANGED <<pc, mem, loc, ncmds>>

\* What the first checks of a command say: it is refused with an error, or it
\* goes on at a position with its local variables set.
Refused(res) == [res |-> res, to |-> "idle", locals |-> LocInit]
Accepted(to, locals) == [res |-> "ok", to |-> to, locals |-> locals]

\* A process starts on one of the command lines `cmds` of the command `op`,
\* loads the state file and runs the command's first checks.
LoadCommand(p, op, check) ==
  /\ p \in run.procs /\ pc[p] = "idle" /\ ncmds < run.cmds
  /\ pre' = [pre EXCEPT ![p] = primaryFile]
  /\ made' = [made EXCEPT ![p] = MadeNone]
  /\ UNCHANGED <<nfaults, run, worldVars, fileVars>>
  /\ UNCHANGED lockOnlyVars
  /\ IF ~LoadOk THEN Reject(p, op, "error")
     ELSE LET checks == [c \in {d \in DOMAIN check : d.project \in run.projects} |-> check[c]] IN
          \/ \E c \in DOMAIN checks :
               /\ checks[c].res = "ok"
               /\ Proceed(p, c, checks[c].to, checks[c].locals)
          \/ \E res \in {checks[c].res : c \in DOMAIN checks} \ {"ok"} :
               Reject(p, op, res)

\* StateManager.save as one step, `renames` of the `n` saves started together
\* having reached their rename: the document replaces state.json and the
\* previous state.json is copied to state.json.backup before each rename.
Saved(doc, renames) ==
  /\ primaryFile' = IF renames >= 1 THEN doc ELSE primaryFile
  /\ backupFile' = IF renames >= 2 THEN doc
                   ELSE IF renames = 1 /\ primaryFile # NoFile THEN primaryFile
                   ELSE backupFile
SaveOutcomes == {"ok", "failed_before_rename", "failed_after_rename"}
\* n saves of which the k-th ends with outcome o and the earlier ones succeed.
Save(doc, n, k, o) ==
  /\ IF o = "ok" THEN UNCHANGED nfaults ELSE Fault
  /\ Saved(doc, CASE o = "ok" -> n
                  [] o = "failed_before_rename" -> k - 1
                  [] o = "failed_after_rename" -> k)

\* ------------------------------------------------- project create
\* The main branch record and the project record of project create.
MainBranch(id, name) ==
  [id |-> id, name |-> buildNamespace(name, Main), projectName |-> name,
   parentBranchId |-> Null, isPrimary |-> TRUE, snapshotName |-> NoSnap,
   zfsDataset |-> getDatasetName(name, Main), status |-> "running", port |-> 0]
NewProject(id, name, mainBranch) == [id |-> id, name |-> name, branches |-> <<mainBranch>>]

\* ProjectRepository.add's push.
AddProject(doc, project) == [doc EXCEPT !.projects = Append(@, project)]

\* new StateManager; state.load()
PcCheck(c) == Accepted("pc_init", LocInit)
PcLoad(p) == LoadCommand(p, "project_create", [c \in ProjectCreateCommands |-> PcCheck(c)])

\* getZFSPool, validateAllPermissions, and autoInitialize with its save when
\* no state file was loaded.
PcInit(p) ==
  /\ pc[p] = "pc_init"
  /\ \/ /\ mem[p] # NoFile
        /\ Goto(p, "pc_dataset")
        /\ UNCHANGED <<mem, loc, nfaults, fileVars>>
     \/ /\ mem[p] = NoFile
        /\ \E o \in SaveOutcomes :
             /\ Save(EmptyDoc, 1, 1, o)
             /\ IF o = "ok"
                THEN /\ mem' = [mem EXCEPT ![p] = EmptyDoc]
                     /\ Goto(p, "pc_dataset") /\ UNCHANGED loc
                ELSE Finish(p, "error")
     \/ Fault /\ Finish(p, "error") /\ UNCHANGED fileVars
  /\ UNCHANGED <<made, worldVars>>

\* The existence check, then zfs.createDataset of <project>-main
\* (`zfs create -p` succeeds on a dataset that exists).
PcDataset(p) ==
  LET ds == getDatasetName(cmd[p].project, Main) IN
  /\ pc[p] = "pc_dataset"
  /\ IF HasProjectNamed(mem[p], cmd[p].project)
     THEN Finish(p, "user_error") /\ UNCHANGED <<made, nfaults, datasets>>
     ELSE \/ /\ datasets' = IF datasetExists(ds) THEN datasets
                            ELSE datasets \cup {[name |-> ds, origin |-> NoSnap, mounted |-> FALSE]}
             /\ made' = IF datasetExists(ds) THEN made
                        ELSE [made EXCEPT ![p].datasets = @ \cup {ds}]
             /\ Goto(p, "pc_mount") /\ UNCHANGED <<mem, loc, nfaults>>
          \/ Fault /\ Finish(p, "error") /\ UNCHANGED <<made, datasets>>
  /\ UNCHANGED <<zsnaps, containers, fileVars>>

\* zfs.mountDataset of <project>-main
PcMount(p) ==
  /\ pc[p] = "pc_mount"
  /\ Mount(p, getDatasetName(cmd[p].project, Main), TRUE, "pc_container", FALSE)

\* getMountpoint, generateCerts, pullImage, wal.deleteArchiveDir and
\* ensureArchiveDir of the archive directory named after the dataset (the
\* rm -rf is recorded in made), then docker.createContainer: the runtime
\* refuses a name that is in use.
PcContainer(p) ==
  LET name == getContainerName(cmd[p].project, Main)
      ds == getDatasetName(cmd[p].project, Main)
  IN
  /\ pc[p] = "pc_container"
  /\ \/ /\ datasetExists(ds) /\ ~getContainerByName(name)
        /\ containers' = containers \cup {NewContainer(name, 0)}
        /\ made' = [made EXCEPT ![p].containers = @ \cup {name},
                                ![p].walDeleted = @ \cup {ds}]
        /\ Goto(p, "pc_start") /\ UNCHANGED <<mem, loc, nfaults>>
     \/ /\ datasetExists(ds) /\ getContainerByName(name)
        /\ made' = [made EXCEPT ![p].walDeleted = @ \cup {ds}]
        /\ Finish(p, "error") /\ UNCHANGED <<nfaults, containers>>
     \/ /\ ~datasetExists(ds)                       \* getMountpoint throws
        /\ Finish(p, "error") /\ UNCHANGED <<made, nfaults, containers>>
     \/ Fault /\ Finish(p, "error") /\ UNCHANGED <<made, containers>>
  /\ UNCHANGED <<datasets, zsnaps, fileVars>>

\* docker.startContainer
PcStart(p) ==
  /\ pc[p] = "pc_start"
  /\ Start(p, getContainerName(cmd[p].project, Main), "pc_wait", FALSE)

\* docker.waitForHealthy
PcWait(p) ==
  /\ pc[p] = "pc_wait"
  /\ WaitForHealthy(p, getContainerName(cmd[p].project, Main), "pc_add", FALSE)

\* getContainerPort, getUsedSpace, the records, state.projects.add
PcAdd(p) ==
  LET name == cmd[p].project
      branchId == generateUUID
      port == getContainerPort(getContainerName(name, Main))
      project == NewProject(branchId + 1, name,
                            [MainBranch(branchId, name) EXCEPT !.port = port])
  IN
  /\ pc[p] = "pc_add"
  /\ \/ /\ port = 0
        /\ Finish(p, "error") /\ UNCHANGED <<nfaults, fileVars>>
     \/ /\ port # 0 /\ HasProjectNamed(mem[p], name)
        /\ Finish(p, "user_error") /\ UNCHANGED <<nfaults, fileVars>>
     \/ /\ port # 0 /\ ~HasProjectNamed(mem[p], name)
        /\ \E o \in SaveOutcomes :
             /\ Save(AddProject(mem[p], project), 1, 1, o)
             /\ Finish(p, IF o = "ok" THEN "ok" ELSE "error")
     \/ Fault /\ Finish(p, "error") /\ UNCHANGED fileVars
  /\ UNCHANGED <<made, worldVars>>

\* ------------------------------------------------- the rollback registry
Compensator(do, ds, snap) == [do |-> do, ds |-> ds, snap |-> snap]
\* Rollback.add
RollbackAdd(rb, c) == Append(rb, c)

\* ------------------------------------------------- the snapshot service

\* ------------------------------------------------- branch create
\* The branch record with the primary flag of the main branch's record.
NewBranchPrimary(id, project, branch, sourceId, snap) ==
  [id |-> id, name |-> buildNamespace(project, branch), projectName |-> project,
   parentBranchId |-> sourceId, isPrimary |-> TRUE, snapshotName |-> snap,
   zfsDataset |-> getDatasetName(project, branch), status |-> "running", port |-> 0]
NewBranch(id, project, branch, sourceId, snap) ==
  [id |-> id, name |-> buildNamespace(project, branch), projectName |-> project,
   parentBranchId |-> sourceId, isPrimary |-> FALSE, snapshotName |-> snap,
   zfsDataset |-> getDatasetName(project, branch), status |-> "running", port |-> 0]

\* BranchRepository.add putting the branch at the head of the list.
AddBranchFirst(doc, pi, branch) ==
  [doc EXCEPT !.projects[pi].branches = <<branch>> \o @]
\* BranchRepository.add's push into the project of the given index.
AddBranch(doc, pi, branch) == [doc EXCEPT !.projects[pi].branches = Append(@, branch)]

\* The catch block: an error goes to Rollback.execute and is thrown again.
Unwind(p, res) ==
  /\ loc' = [loc EXCEPT ![p].err = res, ![p].errAt = pc[p]]
  /\ Goto(p, "bc_rollback")
  /\ UNCHANGED mem

\* initializeServices, getBranchWithProject(source), the existence check
BcCheck(c) ==
  LET doc == primaryFile
      source == buildNamespace(c.project, c.parent)
      target == buildNamespace(c.project, c.branch)
  IN
  IF doc = NoFile THEN Refused("error")
  ELSE LET pi == NamespaceIndex(doc, source) IN
       IF pi = 0 THEN Refused("user_error")
       ELSE LET project == doc.projects[pi]
                sourceBranch == project.branches[BranchIndexByName(project, source)]
            IN  IF HasBranchNamed(project, target) THEN Refused("user_error")
                ELSE Accepted("bc_checkpoint",
                              [LocInit EXCEPT !.pid = project.id, !.bid = sourceBranch.id])
BcLoad(p) == LoadCommand(p, "branch_create", [c \in BranchCreateCommands |-> BcCheck(c)])

\* The project and the branch the command holds references to.
MemProject(p) == mem[p].projects[ProjectIndexById(mem[p], loc[p].pid)]
MemBranch(p) == MemProject(p).branches[BranchIndexById(MemProject(p), loc[p].bid)]

\* An external call inside branch create's try block.
CallTry(p, to) ==
  \/ Goto(p, to) /\ UNCHANGED <<mem, loc, made, nfaults, worldVars, fileVars>>
  \/ Fault /\ Unwind(p, "error") /\ UNCHANGED <<made, worldVars, fileVars>>

\* createApplicationConsistentSnapshot: getContainerByName and CHECKPOINT of
\* the source branch when its status is running.
BcCheckpoint(p) ==
  /\ pc[p] = "bc_checkpoint"
  /\ Checkpoint(p, MemBranch(p).status,
                getContainerName(cmd[p].project, cmd[p].parent), "bc_snapshot")

\* createApplicationConsistentSnapshot: zfs.createSnapshot of the source dataset
BcSnapshot(p) ==
  LET ds == getDatasetName(cmd[p].project, cmd[p].parent)
      snap == FullSnapshotName(ds, formatTimestamp)
  IN
  /\ pc[p] = "bc_snapshot"
  /\ \/ /\ datasetExists(ds)
        /\ zsnaps' = zsnaps \cup {snap}
        /\ made' = [made EXCEPT ![p].snaps = @ \cup {snap}]
        /\ loc' = [loc EXCEPT ![p].snap = snap, ![p].createdSnapshot = TRUE]
        /\ Goto(p, "bc_clone") /\ UNCHANGED <<mem, nfaults>>
     \/ /\ ~datasetExists(ds)
        /\ Finish(p, "error") /\ UNCHANGED <<made, nfaults, zsnaps>>
     \/ Fault /\ Finish(p, "error") /\ UNCHANGED <<made, zsnaps>>
  /\ UNCHANGED <<datasets, containers, fileVars>>

\* zfs.cloneSnapshot registering destroySnapshot, then destroyDataset.
BcCloneSnapshotFirst(p) ==
  LET target == getDatasetName(cmd[p].project, cmd[p].branch)
      snap == loc[p].snap
      rollback == RollbackAdd(RollbackAdd(loc[p].rollback,
                                          Compensator("destroySnapshot", <<>>, snap)),
                              Compensator("destroyDataset", target, NoSnap))
  IN
  /\ pc[p] = "bc_clone"
  /\ \/ /\ snap \in zsnaps /\ ~datasetExists(target)
        /\ datasets' = datasets \cup {[name |-> target, origin |-> snap, mounted |-> FALSE]}
        /\ made' = [made EXCEPT ![p].datasets = @ \cup {target}, ![p].registered = rollback]
        /\ loc' = [loc EXCEPT ![p].rollback = rollback]
        /\ Goto(p, "bc_mount") /\ UNCHANGED <<mem, nfaults>>
     \/ /\ snap \notin zsnaps \/ datasetExists(target)
        /\ Unwind(p, "error") /\ UNCHANGED <<made, nfaults, datasets>>
     \/ Fault /\ Unwind(p, "error") /\ UNCHANGED <<made, datasets>>
  /\ UNCHANGED <<zsnaps, containers, fileVars>>
\* zfs.cloneSnapshot, then the compensators of the dataset and of the snapshot
BcClone(p) ==
  LET target == getDatasetName(cmd[p].project, cmd[p].branch)
      snap == loc[p].snap
      withDataset == RollbackAdd(loc[p].rollback, Compensator("destroyDataset", target, NoSnap))
      rollback == IF loc[p].createdSnapshot
                  THEN RollbackAdd(withDataset, Compensator("destroySnapshot", <<>>, snap))
                  ELSE withDataset
  IN
  /\ pc[p] = "bc_clone"
  /\ \/ /\ snap \in zsnaps /\ ~datasetExists(target)
        /\ datasets' = datasets \cup {[name |-> target, origin |-> snap, mounted |-> FALSE]}
        /\ made' = [made EXCEPT ![p].datasets = @ \cup {target}, ![p].registered = rollback]
        /\ loc' = [loc EXCEPT ![p].rollback = rollback]
        /\ Goto(p, "bc_mount") /\ UNCHANGED <<mem, nfaults>>
     \/ /\ snap \notin zsnaps \/ datasetExists(target)
        /\ Unwind(p, "error") /\ UNCHANGED <<made, nfaults, datasets>>
     \/ Fault /\ Unwind(p, "error") /\ UNCHANGED <<made, datasets>>
  /\ UNCHANGED <<zsnaps, containers, fileVars>>

\* zfs.mountDataset, zfs.getMountpoint
BcMount(p) ==
  /\ pc[p] = "bc_mount"
  /\ Mount(p, getDatasetName(cmd[p].project, cmd[p].branch), TRUE, "bc_wal", TRUE)

\* imageExists / pullImage, the WAL archive directory, the recovery configuration
BcWal(p) ==
  /\ pc[p] = "bc_wal"
  /\ \/ /\ made' = [made EXCEPT ![p].walDeleted =
                       @ \cup {getDatasetName(cmd[p].project, cmd[p].branch)}]
        /\ Goto(p, "bc_container")
        /\ UNCHANGED <<mem, loc, nfaults, worldVars, fileVars>>
     \/ Fault /\ Unwind(p, "error") /\ UNCHANGED <<made, worldVars, fileVars>>

\* docker.createContainer, then the compensator of the container
BcContainer(p) ==
  LET name == getContainerName(cmd[p].project, cmd[p].branch) IN
  /\ pc[p] = "bc_container"
  /\ \/ /\ ~getContainerByName(name)
        /\ containers' = containers \cup {NewContainer(name, 0)}
        /\ made' = [made EXCEPT ![p].containers = @ \cup {name},
                                ![p].registered = RollbackAdd(loc[p].rollback,
                                    Compensator("removeContainer", name, NoSnap))]
        /\ loc' = [loc EXCEPT ![p].rollback =
                     RollbackAdd(@, Compensator("removeContainer", name, NoSnap))]
        /\ Goto(p, "bc_start") /\ UNCHANGED <<mem, nfaults>>
     \/ /\ getContainerByName(name)
        /\ Unwind(p, "error") /\ UNCHANGED <<made, nfaults, containers>>
     \/ Fault /\ Unwind(p, "error") /\ UNCHANGED <<made, containers>>
  /\ UNCHANGED <<datasets, zsnaps, fileVars>>

\* docker.startContainer
BcStart(p) ==
  /\ pc[p] = "bc_start"
  /\ Start(p, getContainerName(cmd[p].project, cmd[p].branch), "bc_wait", TRUE)

\* docker.waitForHealthy returning before the branch is recorded.
BcWaitSkipped(p) ==
  /\ pc[p] = "bc_wait"
  /\ Goto(p, "bc_add") /\ UNCHANGED <<mem, loc, made, nfaults, worldVars, fileVars>>
\* docker.waitForHealthy
BcWait(p) ==
  /\ pc[p] = "bc_wait"
  /\ WaitForHealthy(p, getContainerName(cmd[p].project, cmd[p].branch), "bc_add", TRUE)

\* getContainerPort, getUsedSpace, the branch record, state.branches.add,
\* rollback.clear
BcAdd(p) ==
  LET pi == ProjectIndexById(mem[p], loc[p].pid)
      port == getContainerPort(getContainerName(cmd[p].project, cmd[p].branch))
      branch == [NewBranch(generateUUID, cmd[p].project, cmd[p].branch, loc[p].bid,
                           loc[p].snap) EXCEPT !.port = port]
      doc == AddBranch(mem[p], pi, branch)
  IN
  /\ pc[p] = "bc_add"
  /\ \/ /\ port = 0
        /\ Unwind(p, "error") /\ UNCHANGED <<nfaults, fileVars>>
     \/ /\ port # 0 /\ HasBranchNamed(mem[p].projects[pi], branch.name)
        /\ Unwind(p, "user_error") /\ UNCHANGED <<nfaults, fileVars>>
     \/ /\ port # 0 /\ ~HasBranchNamed(mem[p].projects[pi], branch.name)
        /\ \E o \in SaveOutcomes :
             /\ Save(doc, 1, 1, o)
             /\ IF o = "ok" THEN Finish(p, "ok")
                ELSE /\ loc' = [loc EXCEPT ![p].err = "error", ![p].errAt = pc[p]]
                     /\ mem' = [mem EXCEPT ![p] = doc]
                     /\ Goto(p, "bc_rollback")
     \/ Fault /\ Unwind(p, "error") /\ UNCHANGED fileVars
  /\ UNCHANGED <<made, worldVars>>

\* What one compensator does to the world; each swallows its own error.
Compensate(p, c) ==
  \/ /\ c.do = "destroyDataset"
     /\ datasets' = IF datasetExists(c.ds) THEN DatasetsAfterDestroy(c.ds) ELSE datasets
     /\ zsnaps' = IF datasetExists(c.ds) THEN SnapsAfterDestroy(c.ds) ELSE zsnaps
     /\ UNCHANGED <<containers, nfaults>>
  \/ /\ c.do = "destroySnapshot"
     /\ zsnaps' = IF \E d \in datasets : d.origin = c.snap THEN zsnaps ELSE zsnaps \ {c.snap}
     /\ UNCHANGED <<datasets, containers, nfaults>>
  \/ /\ c.do = "removeContainer"
     /\ containers' = WithoutContainers({c.ds})
     /\ UNCHANGED <<datasets, zsnaps, nfaults>>
  \/ Fault /\ UNCHANGED worldVars

\* Rollback.execute taking the registry first registered first.
BcRollbackInOrder(p) ==
  /\ pc[p] = "bc_rollback"
  /\ IF loc[p].rollback = <<>>
     THEN FinishAt(p, loc[p].err, loc[p].errAt) /\ UNCHANGED <<nfaults, made, worldVars>>
     ELSE /\ Compensate(p, Head(loc[p].rollback))
          /\ made' = [made EXCEPT ![p].executed = Append(@, Head(loc[p].rollback)),
                                  ![p].compensatorFailed = @ \/ nfaults' # nfaults]
          /\ loc' = [loc EXCEPT ![p].rollback = Tail(@)]
          /\ Goto(p, "bc_rollback") /\ UNCHANGED mem
  /\ UNCHANGED fileVars
\* Rollback.execute, one compensator a step, last registered first, the error
\* of a compensator swallowed; then the error is thrown again.
BcRollback(p) ==
  /\ pc[p] = "bc_rollback"
  /\ IF loc[p].rollback = <<>>
     THEN FinishAt(p, loc[p].err, loc[p].errAt) /\ UNCHANGED <<nfaults, made, worldVars>>
     ELSE /\ Compensate(p, loc[p].rollback[Len(loc[p].rollback)])
          /\ made' = [made EXCEPT ![p].executed = Append(@, loc[p].rollback[Len(loc[p].rollback)]),
                                  ![p].compensatorFailed = @ \/ nfaults' # nfaults]
          /\ loc' = [loc EXCEPT ![p].rollback = SubSeq(@, 1, Len(@) - 1)]
          /\ Goto(p, "bc_rollback") /\ UNCHANGED mem
  /\ UNCHANGED fileVars

\* ------------------------------------------------- repositories, in memory
\* SnapshotRepository.deleteForBranch's filter
DeleteForBranch(doc, branchName) ==
  [doc EXCEPT !.snapshots = SelectSeq(@, LAMBDA s : s.branchName # branchName)]
\* BranchRepository.delete's splice; the document is left alone when the
\* project or the branch is not found (the call throws).
DeleteBranch(doc, projectId, branchId) ==
  LET pi == ProjectIndexById(doc, projectId) IN
  IF pi = 0 THEN doc
  ELSE LET bi == BranchIndexById(doc.projects[pi], branchId) IN
       IF bi = 0 THEN doc
       ELSE [doc EXCEPT !.projects[pi].branches = Splice(@, bi)]
CanDeleteBranch(doc, projectId, branchId) ==
  /\ ProjectIndexById(doc, projectId) # 0
  /\ BranchIndexById(doc.projects[ProjectIndexById(doc, projectId)], branchId) # 0
\* BranchRepository.update's assignment
UpdateBranch(doc, projectId, branch) ==
  LET pi == ProjectIndexById(doc, projectId)
      bi == BranchIndexById(doc.projects[pi], branch.id)
  IN  [doc EXCEPT !.projects[pi].branches[bi] = branch]

\* A save inside a command without a rollback registry: the command goes on
\* when the save succeeds and ends with the error when it fails.
SaveThen(p, doc, to) ==
  \E o \in SaveOutcomes :
    /\ Save(doc, 1, 1, o)
    /\ IF o = "ok"
       THEN mem' = [mem EXCEPT ![p] = doc] /\ Goto(p, to) /\ UNCHANGED loc
       ELSE Finish(p, "error")

\* getContainerByName, stopContainer, removeContainer
RemoveContainer(p, name, to) ==
  \/ /\ containers' = WithoutContainers({name})
     /\ Goto(p, to) /\ UNCHANGED <<mem, loc, nfaults>>
  \/ Fault /\ Finish(p, "error") /\ UNCHANGED containers

\* ------------------------------------------------- branch reset
TempDataset(ds) == ds \o <<"temp">>
BackupDataset(ds) == ds \o <<"old">>

\* initializeServices, getBranchWithProject, the checks of the primary branch,
\* the parent and the dependent branches
BrCheck(c) ==
  LET doc == primaryFile
      name == buildNamespace(c.project, c.branch)
  IN
  IF doc = NoFile THEN Refused("error")
  ELSE LET pi == NamespaceIndex(doc, name) IN
       IF pi = 0 THEN Refused("user_error")
       ELSE LET project == doc.projects[pi]
                branch == project.branches[BranchIndexByName(project, name)]
                dependentBranches ==
                  SelectSeq(project.branches, LAMBDA b : b.parentBranchId = branch.id)
            IN  IF \/ branch.isPrimary
                   \/ BranchIndexById(project, branch.parentBranchId) = 0
                   \/ (dependentBranches # <<>> /\ ~c.force)
                THEN Refused("user_error")
                ELSE Accepted(IF dependentBranches # <<>>
                              THEN "br_dep_container" ELSE "br_stop",
                              [LocInit EXCEPT !.pid = project.id, !.bid = branch.id,
                                              !.queue = dependentBranches])
BrLoad(p) == LoadCommand(p, "branch_reset", [c \in BranchResetCommands |-> BrCheck(c)])

\* The parent of the branch being reset.
ParentBranch(p) ==
  MemProject(p).branches[BranchIndexById(MemProject(p), MemBranch(p).parentBranchId)]

\* force: the container of the next dependent branch
BrDepContainer(p) ==
  LET dep == Head(loc[p].queue) IN
  /\ pc[p] = "br_dep_container"
  /\ RemoveContainer(p, getContainerName(dep.name[1], dep.name[2]), "br_dep_snapshots")
  /\ UNCHANGED <<made, datasets, zsnaps, fileVars>>

\* force: state.snapshots.deleteForBranch(depBranch.name)
BrDepSnapshots(p) ==
  /\ pc[p] = "br_dep_snapshots"
  /\ SaveThen(p, DeleteForBranch(mem[p], Head(loc[p].queue).name), "br_dep_branch")
  /\ UNCHANGED <<made, worldVars>>

\* force: state.branches.delete(project.id, depBranch.id), then the next
\* dependent branch
BrDepBranch(p) ==
  LET dep == Head(loc[p].queue)
      doc == DeleteBranch(mem[p], loc[p].pid, dep.id)
      to == IF Tail(loc[p].queue) = <<>> THEN "br_stop" ELSE "br_dep_container"
  IN
  /\ pc[p] = "br_dep_branch"
  /\ IF ~CanDeleteBranch(mem[p], loc[p].pid, dep.id)
     THEN Finish(p, "user_error") /\ UNCHANGED <<nfaults, fileVars>>
     ELSE \E o \in SaveOutcomes :
            /\ Save(doc, 1, 1, o)
            /\ IF o = "ok"
               THEN /\ mem' = [mem EXCEPT ![p] = doc]
                    /\ loc' = [loc EXCEPT ![p].queue = Tail(@)]
                    /\ Goto(p, to)
               ELSE Finish(p, "error")
  /\ UNCHANGED <<made, worldVars>>

\* Stop and remove the container of the branch.
BrStop(p) ==
  /\ pc[p] = "br_stop"
  /\ RemoveContainer(p, getContainerName(cmd[p].project, cmd[p].branch), "br_checkpoint")
  /\ UNCHANGED <<made, datasets, zsnaps, fileVars>>

\* createApplicationConsistentSnapshot of the parent: container lookup, CHECKPOINT
BrCheckpoint(p) ==
  LET parent == ParentBranch(p) IN
  /\ pc[p] = "br_checkpoint"
  /\ Checkpoint(p, parent.status,
                getContainerName(parent.name[1], parent.name[2]), "br_snapshot")

\* createApplicationConsistentSnapshot of the parent: zfs.createSnapshot
BrSnapshot(p) ==
  LET parent == ParentBranch(p)
      ds == getDatasetName(parent.name[1], parent.name[2])
      snap == FullSnapshotName(ds, formatTimestamp)
  IN
  /\ pc[p] = "br_snapshot"
  /\ \/ /\ datasetExists(ds)
        /\ zsnaps' = zsnaps \cup {snap}
        /\ made' = [made EXCEPT ![p].snaps = @ \cup {snap}]
        /\ loc' = [loc EXCEPT ![p].snap = snap]
        /\ Goto(p, "br_clone") /\ UNCHANGED <<mem, nfaults>>
     \/ /\ ~datasetExists(ds)
        /\ Finish(p, "error") /\ UNCHANGED <<made, nfaults, zsnaps>>
     \/ Fault /\ Finish(p, "error") /\ UNCHANGED <<made, zsnaps>>
  /\ UNCHANGED <<datasets, containers, fileVars>>

\* Step 1: zfs.cloneSnapshot to <dataset>-temp
BrClone(p) ==
  LET temp == TempDataset(getDatasetName(cmd[p].project, cmd[p].branch)) IN
  /\ pc[p] = "br_clone"
  /\ \/ /\ loc[p].snap \in zsnaps /\ ~datasetExists(temp)
        /\ datasets' = datasets \cup {[name |-> temp, origin |-> loc[p].snap, mounted |-> FALSE]}
        /\ made' = [made EXCEPT ![p].datasets = @ \cup {temp}]
        /\ Goto(p, "br_mount_temp") /\ UNCHANGED <<mem, loc, nfaults>>
     \/ /\ loc[p].snap \notin zsnaps \/ datasetExists(temp)
        /\ Finish(p, "error") /\ UNCHANGED <<made, nfaults, datasets>>
     \/ Fault /\ Finish(p, "error") /\ UNCHANGED <<made, datasets>>
  /\ UNCHANGED <<zsnaps, containers, fileVars>>

\* Step 2 left out: the swap starts on a temporary dataset never mounted.
BrMountTempSkipped(p) ==
  /\ pc[p] = "br_mount_temp"
  /\ Goto(p, "br_unmount")
  /\ UNCHANGED <<mem, loc, made, nfaults, worldVars, fileVars>>
\* Step 2: zfs.mountDataset(temp)
BrMountTemp(p) ==
  /\ pc[p] = "br_mount_temp"
  /\ Mount(p, TempDataset(getDatasetName(cmd[p].project, cmd[p].branch)), TRUE,
           "br_unmount", FALSE)

\* Step 3: zfs.unmountDataset(dataset)
BrUnmount(p) ==
  /\ pc[p] = "br_unmount"
  /\ Mount(p, getDatasetName(cmd[p].project, cmd[p].branch), FALSE, "br_rename_old", FALSE)

\* zfs.renameDataset(from, to) inside a command without a rollback registry
RenameDataset(p, from, to, next) ==
  \/ /\ datasetExists(from) /\ ~datasetExists(to)
     /\ datasets' = DatasetsAfterRename(from, to)
     /\ zsnaps' = SnapsAfterRename(from, to)
     /\ Goto(p, next) /\ UNCHANGED <<mem, loc, nfaults>>
  \/ /\ ~datasetExists(from) \/ datasetExists(to)
     /\ Finish(p, "error") /\ UNCHANGED <<nfaults, datasets, zsnaps>>
  \/ Fault /\ Finish(p, "error") /\ UNCHANGED <<datasets, zsnaps>>

\* Step 3: zfs.renameDataset(dataset, <dataset>-old)
BrRenameOld(p) ==
  LET ds == getDatasetName(cmd[p].project, cmd[p].branch) IN
  /\ pc[p] = "br_rename_old"
  /\ RenameDataset(p, ds, BackupDataset(ds), "br_unmount_temp")
  /\ UNCHANGED <<made, containers, fileVars>>

\* Step 3: zfs.unmountDataset(temp)
BrUnmountTemp(p) ==
  /\ pc[p] = "br_unmount_temp"
  /\ Mount(p, TempDataset(getDatasetName(cmd[p].project, cmd[p].branch)), FALSE,
           "br_rename_temp", FALSE)

\* Step 3: zfs.renameDataset(<dataset>-temp, dataset)
BrRenameTemp(p) ==
  LET ds == getDatasetName(cmd[p].project, cmd[p].branch) IN
  /\ pc[p] = "br_rename_temp"
  /\ RenameDataset(p, TempDataset(ds), ds, "br_mount")
  /\ UNCHANGED <<made, containers, fileVars>>

\* Step 4: zfs.mountDataset(dataset)
BrMount(p) ==
  /\ pc[p] = "br_mount"
  /\ Mount(p, getDatasetName(cmd[p].project, cmd[p].branch), TRUE, "br_destroy_old", FALSE)

\* Step 5: zfs.destroyDataset(<dataset>-old, true), its error swallowed
BrDestroyOld(p) ==
  LET old == BackupDataset(getDatasetName(cmd[p].project, cmd[p].branch)) IN
  /\ pc[p] = "br_destroy_old"
  /\ \/ /\ datasets' = IF datasetExists(old) THEN DatasetsAfterDestroy(old) ELSE datasets
        /\ zsnaps' = IF datasetExists(old) THEN SnapsAfterDestroy(old) ELSE zsnaps
        /\ UNCHANGED nfaults
     \/ Fault /\ UNCHANGED <<datasets, zsnaps>>
  /\ Goto(p, "br_wal")
  /\ UNCHANGED <<mem, loc, made, containers, fileVars>>

\* zfs.getMountpoint, the WAL archive directory
BrWal(p) == pc[p] = "br_wal" /\ Call(p, "br_container")

\* The container of a reset branch created as a new branch's is: the runtime
\* assigns the host port.
BrContainerAnyPort(p) ==
  LET name == getContainerName(cmd[p].project, cmd[p].branch) IN
  /\ pc[p] = "br_container"
  /\ \/ /\ ~getContainerByName(name)
        /\ containers' = containers \cup {NewContainer(name, 0)}
        /\ made' = [made EXCEPT ![p].containers = @ \cup {name}]
        /\ Goto(p, "br_start") /\ UNCHANGED <<mem, loc, nfaults>>
     \/ /\ getContainerByName(name)
        /\ Finish(p, "error") /\ UNCHANGED <<made, nfaults, containers>>
     \/ Fault /\ Finish(p, "error") /\ UNCHANGED <<made, containers>>
  /\ UNCHANGED <<datasets, zsnaps, fileVars>>

\* docker.createContainer with the branch's port
BrContainer(p) ==
  LET name == getContainerName(cmd[p].project, cmd[p].branch) IN
  /\ pc[p] = "br_container"
  /\ \/ /\ ~getContainerByName(name)
        /\ containers' = containers \cup {NewContainer(name, MemBranch(p).port)}
        /\ made' = [made EXCEPT ![p].containers = @ \cup {name}]
        /\ Goto(p, "br_start") /\ UNCHANGED <<mem, loc, nfaults>>
     \/ /\ getContainerByName(name)
        /\ Finish(p, "error") /\ UNCHANGED <<made, nfaults, containers>>
     \/ Fault /\ Finish(p, "error") /\ UNCHANGED <<made, containers>>
  /\ UNCHANGED <<datasets, zsnaps, fileVars>>

\* docker.startContainer
BrStart(p) ==
  /\ pc[p] = "br_start"
  /\ Start(p, getContainerName(cmd[p].project, cmd[p].branch), "br_wait", FALSE)

\* docker.waitForHealthy
BrWait(p) ==
  /\ pc[p] = "br_wait"
  /\ WaitForHealthy(p, getContainerName(cmd[p].project, cmd[p].branch), "br_snapshots", FALSE)

\* state.snapshots.deleteForBranch(branch.name)
BrSnapshots(p) ==
  /\ pc[p] = "br_snapshots"
  /\ SaveThen(p, DeleteForBranch(mem[p], MemBranch(p).name), "br_update")
  /\ UNCHANGED <<made, worldVars>>

\* zfs.getUsedSpace, the branch's new fields, state.branches.update
BrUpdate(p) ==
  LET branch == [MemBranch(p) EXCEPT !.status = "running", !.snapshotName = loc[p].snap] IN
  /\ pc[p] = "br_update"
  /\ \/ \E o \in SaveOutcomes :
          /\ Save(UpdateBranch(mem[p], loc[p].pid, branch), 1, 1, o)
          /\ Finish(p, IF o = "ok" THEN "ok" ELSE "error")
     \/ Fault /\ Finish(p, "error") /\ UNCHANGED fileVars
  /\ UNCHANGED <<made, worldVars>>

\* ------------------------------------------------- branch delete
\* collectDescendants: depth first, each child after its own descendants
RECURSIVE collectDescendants(_, _)
collectDescendants(branch, allBranches) ==
  LET children == SelectSeq(allBranches, LAMBDA b : b.parentBranchId = branch.id) IN
  Concat([i \in DOMAIN children |->
            collectDescendants(children[i], allBranches) \o <<children[i]>>])

ContainersOf(branches) ==
  {getContainerName(b.name[1], b.name[2]) : b \in Range(branches)}

\* initializeServices, getBranchWithProject, the checks of the primary branch
\* and of the descendants
BdCheck(c) ==
  LET doc == primaryFile
      name == buildNamespace(c.project, c.branch)
  IN
  IF doc = NoFile THEN Refused("error")
  ELSE LET pi == NamespaceIndex(doc, name) IN
       IF pi = 0 THEN Refused("user_error")
       ELSE LET project == doc.projects[pi]
                branch == project.branches[BranchIndexByName(project, name)]
                descendants == IF branch.isPrimary THEN <<>>
                               ELSE collectDescendants(branch, project.branches)
            IN  IF branch.isPrimary \/ (descendants # <<>> /\ ~c.force)
                THEN Refused("user_error")
                ELSE Accepted("bd_containers",
                              [LocInit EXCEPT !.pid = project.id, !.bid = branch.id,
                                              !.queue = descendants \o <<branch>>])
BdLoad(p) == LoadCommand(p, "branch_delete", [c \in BranchDeleteCommands |-> BdCheck(c)])

\* Promise.all over the branches: stop and remove each container. When one
\* removal fails, any of the others may have been done.
RemoveContainers(p, to) ==
  \/ /\ containers' = WithoutContainers(ContainersOf(loc[p].queue))
     /\ Goto(p, to) /\ UNCHANGED <<mem, loc, nfaults>>
  \/ /\ Fault
     /\ \E done \in SUBSET ContainersOf(loc[p].queue) :
          /\ done # ContainersOf(loc[p].queue)
          /\ containers' = WithoutContainers(done)
     /\ Finish(p, "error")

BdContainers(p) ==
  /\ pc[p] = "bd_containers"
  /\ RemoveContainers(p, "bd_wal")
  /\ UNCHANGED <<made, datasets, zsnaps, fileVars>>

\* Promise.all: wal.deleteArchiveDir
BdWal(p) == pc[p] = "bd_wal" /\ Call(p, "bd_snapshots")

\* Several repository calls started together (Promise.all): each changes the
\* document in memory before the first save writes it, and each saves.
SaveAllThen(p, doc, n, to) ==
  \E o \in SaveOutcomes, k \in 1..n :
    /\ o = "ok" => k = n
    /\ Save(doc, n, k, o)
    /\ IF o = "ok"
       THEN mem' = [mem EXCEPT ![p] = doc] /\ Goto(p, to) /\ UNCHANGED loc
       ELSE Finish(p, "error")

\* Promise.all: state.snapshots.deleteForBranch of each branch
BdSnapshots(p) ==
  LET doc == [mem[p] EXCEPT !.snapshots =
                SelectSeq(@, LAMBDA s : s.branchName \notin {b.name : b \in Range(loc[p].queue)})]
  IN
  /\ pc[p] = "bd_snapshots"
  /\ SaveAllThen(p, doc, Len(loc[p].queue), "bd_destroy")
  /\ UNCHANGED <<made, worldVars>>

\* The sequential loop walking the list from its end.
DestroyNextReversed(p, to) ==
  LET b == loc[p].queue[Len(loc[p].queue) + 1 - loc[p].i]
      ds == getDatasetName(b.name[1], b.name[2])
  IN
  \/ /\ datasets' = IF datasetExists(ds) THEN DatasetsAfterDestroy(ds) ELSE datasets
     /\ zsnaps' = IF datasetExists(ds) THEN SnapsAfterDestroy(ds) ELSE zsnaps
     /\ loc' = [loc EXCEPT ![p].i = @ + 1]
     /\ Goto(p, IF loc[p].i = Len(loc[p].queue) THEN to ELSE pc[p])
     /\ UNCHANGED <<mem, nfaults>>
  \/ /\ datasetExists(ds)
     /\ Fault /\ Finish(p, "error") /\ UNCHANGED <<datasets, zsnaps>>
\* One round of the sequential loop: datasetExists, unmountDataset,
\* destroyDataset(name, true) of the next branch.
DestroyNext(p, to) ==
  LET b == loc[p].queue[loc[p].i]
      ds == getDatasetName(b.name[1], b.name[2])
  IN
  \/ /\ datasets' = IF datasetExists(ds) THEN DatasetsAfterDestroy(ds) ELSE datasets
     /\ zsnaps' = IF datasetExists(ds) THEN SnapsAfterDestroy(ds) ELSE zsnaps
     /\ loc' = [loc EXCEPT ![p].i = @ + 1]
     /\ Goto(p, IF loc[p].i = Len(loc[p].queue) THEN to ELSE pc[p])
     /\ UNCHANGED <<mem, nfaults>>
  \/ /\ datasetExists(ds)
     /\ Fault /\ Finish(p, "error") /\ UNCHANGED <<datasets, zsnaps>>

BdDestroy(p) ==
  /\ pc[p] = "bd_destroy"
  /\ DestroyNext(p, "bd_records")
  /\ UNCHANGED <<made, containers, fileVars>>

\* state.branches.delete of the target alone.
DeleteTargetOnly(doc, projectId, branches) ==
  DeleteBranch(doc, projectId, branches[Len(branches)].id)
RECURSIVE DeleteBranches(_, _, _)
DeleteBranches(doc, projectId, branches) ==
  IF branches = <<>> THEN doc
  ELSE DeleteBranches(DeleteBranch(doc, projectId, Head(branches).id), projectId, Tail(branches))

\* Promise.all: state.branches.delete of each branch
BdRecords(p) ==
  /\ pc[p] = "bd_records"
  /\ \E o \in SaveOutcomes, k \in 1..Len(loc[p].queue) :
       /\ o = "ok" => k = Len(loc[p].queue)
       /\ Save(DeleteBranches(mem[p], loc[p].pid, loc[p].queue), Len(loc[p].queue), k, o)
       /\ Finish(p, IF o = "ok" THEN "ok" ELSE "error")
  /\ UNCHANGED <<made, worldVars>>

\* ------------------------------------------------- project delete
\* ProjectRepository.delete's splice
DeleteProject(doc, name) == [doc EXCEPT !.projects = Splice(@, ProjectIndexByName(doc, name))]

\* initializeServices, getProject, the check of the non-main branches
PdCheck(c) ==
  LET doc == primaryFile IN
  IF doc = NoFile THEN Refused("error")
  ELSE LET pi == ProjectIndexByName(doc, c.project) IN
       IF pi = 0 THEN Refused("user_error")
       ELSE LET project == doc.projects[pi]
                nonMainBranches == SelectSeq(project.branches, LAMBDA b : ~b.isPrimary)
            IN  IF nonMainBranches # <<>> /\ ~c.force
                THEN Refused("user_error")
                ELSE Accepted("pd_containers",
                              [LocInit EXCEPT !.pid = project.id,
                                              !.queue = [i \in DOMAIN project.branches |->
                                                         project.branches[Len(project.branches) + 1 - i]]])
PdLoad(p) == LoadCommand(p, "project_delete", [c \in ProjectDeleteCommands |-> PdCheck(c)])

PdContainers(p) ==
  /\ pc[p] = "pd_containers"
  /\ RemoveContainers(p, "pd_destroy")
  /\ UNCHANGED <<made, datasets, zsnaps, fileVars>>

PdDestroy(p) ==
  /\ pc[p] = "pd_destroy"
  /\ DestroyNext(p, "pd_wal")
  /\ UNCHANGED <<made, containers, fileVars>>

\* wal.deleteArchiveDir of each branch, cert.deleteCerts
PdWal(p) == pc[p] = "pd_wal" /\ Call(p, "pd_remove")

\* state.projects.delete(project.name)
PdRemove(p) ==
  /\ pc[p] = "pd_remove"
  /\ IF ProjectIndexByName(mem[p], cmd[p].project) = 0
     THEN Finish(p, "user_error") /\ UNCHANGED <<nfaults, fileVars>>
     ELSE \E o \in SaveOutcomes :
            /\ Save(DeleteProject(mem[p], cmd[p].project), 1, 1, o)
            /\ Finish(p, IF o = "ok" THEN "ok" ELSE "error")
  /\ UNCHANGED <<made, worldVars>>

\* ------------------------------------------------- snapshot create
NewSnapshot(id, branch, project, snap, date) ==
  [id |-> id, branchId |-> branch.id, branchName |-> branch.name,
   projectName |-> project, zfsSnapshot |-> snap, createdAt |-> date]
\* SnapshotRepository.add's push
AddSnapshot(doc, snapshot) == [doc EXCEPT !.snapshots = Append(@, snapshot)]

\* initializeServices, getBranchWithProject
ScCheck(c) ==
  LET doc == primaryFile
      name == buildNamespace(c.project, c.branch)
  IN
  IF doc = NoFile THEN Refused("error")
  ELSE LET pi == NamespaceIndex(doc, name) IN
       IF pi = 0 THEN Refused("user_error")
       ELSE LET project == doc.projects[pi]
                branch == project.branches[BranchIndexByName(project, name)]
            IN  Accepted("sc_checkpoint",
                         [LocInit EXCEPT !.pid = project.id, !.bid = branch.id])
ScLoad(p) == LoadCommand(p, "snapshot_create", [c \in SnapshotCreateCommands |-> ScCheck(c)])

\* createApplicationConsistentSnapshot of the branch: container lookup, CHECKPOINT
ScCheckpoint(p) ==
  /\ pc[p] = "sc_checkpoint"
  /\ Checkpoint(p, MemBranch(p).status,
                getContainerName(cmd[p].project, cmd[p].branch), "sc_snapshot")

\* createApplicationConsistentSnapshot of the branch: zfs.createSnapshot
ScSnapshot(p) ==
  LET ds == getDatasetName(cmd[p].project, cmd[p].branch)
      snap == FullSnapshotName(ds, formatTimestamp)
  IN
  /\ pc[p] = "sc_snapshot"
  /\ \/ /\ datasetExists(ds)
        /\ zsnaps' = zsnaps \cup {snap}
        /\ made' = [made EXCEPT ![p].snaps = @ \cup {snap}]
        /\ loc' = [loc EXCEPT ![p].snap = snap]
        /\ Goto(p, "sc_add") /\ UNCHANGED <<mem, nfaults>>
     \/ /\ ~datasetExists(ds)
        /\ Finish(p, "error") /\ UNCHANGED <<made, nfaults, zsnaps>>
     \/ Fault /\ Finish(p, "error") /\ UNCHANGED <<made, zsnaps>>
  /\ UNCHANGED <<datasets, containers, fileVars>>

\* zfs.getSnapshotSize, the snapshot record, state.snapshots.add
ScAdd(p) ==
  /\ pc[p] = "sc_add"
  /\ \/ \E o \in SaveOutcomes, date \in NewDate :
          LET snapshot == NewSnapshot(generateUUID, MemBranch(p), cmd[p].project,
                                      loc[p].snap, date)
          IN  /\ Save(AddSnapshot(mem[p], snapshot), 1, 1, o)
              /\ Finish(p, IF o = "ok" THEN "ok" ELSE "error")
     \/ Fault /\ Finish(p, "error") /\ UNCHANGED fileVars
  /\ UNCHANGED <<made, worldVars>>
\* ------------------------------------------------- start, stop
MaxStatusCmds == 4

StartCommands ==
  {[op |-> "start", project |-> q, branch |-> b, parent |-> <<>>, force |-> FALSE] :
     q \in ProjectNames, b \in BranchNames \cup {Main}}
StopCommands ==
  {[op |-> "stop", project |-> q, branch |-> b, parent |-> <<>>, force |-> FALSE] :
     q \in ProjectNames, b \in BranchNames \cup {Main}}

\* state.load and branches.getByNamespace of start and stop
StatusCheck(c, to) ==
  LET doc == primaryFile
      name == buildNamespace(c.project, c.branch)
  IN
  IF doc = NoFile THEN Refused("error")
  ELSE LET pi == NamespaceIndex(doc, name) IN
       IF pi = 0 THEN Refused("user_error")
       ELSE LET project == doc.projects[pi]
                branch == project.branches[BranchIndexByName(project, name)]
            IN  Accepted(to, [LocInit EXCEPT !.pid = project.id, !.bid = branch.id])
StLoad(p) == LoadCommand(p, "start", [c \in StartCommands |-> StatusCheck(c, "st_start")])

\* The check of the recorded status, getContainerByName, docker.startContainer
StStart(p) ==
  LET name == getContainerName(cmd[p].project, cmd[p].branch) IN
  /\ pc[p] = "st_start"
  /\ IF MemBranch(p).status = "running"
     THEN Finish(p, "ok") /\ UNCHANGED <<made, nfaults, worldVars, fileVars>>
     ELSE \/ /\ ~getContainerByName(name)
             /\ Finish(p, "user_error") /\ UNCHANGED <<made, nfaults, worldVars, fileVars>>
          \/ getContainerByName(name) /\ Start(p, name, "st_wait", FALSE)

\* docker.waitForHealthy
StWait(p) ==
  /\ pc[p] = "st_wait"
  /\ WaitForHealthy(p, getContainerName(cmd[p].project, cmd[p].branch), "st_update", FALSE)

\* getContainerPort, branch.status = 'running', state.branches.update
StUpdate(p) ==
  LET port == getContainerPort(getContainerName(cmd[p].project, cmd[p].branch))
      branch == [MemBranch(p) EXCEPT !.status = "running", !.port = port]
  IN
  /\ pc[p] = "st_update"
  /\ \/ /\ port = 0
        /\ Finish(p, "error") /\ UNCHANGED <<nfaults, fileVars>>
     \/ /\ port # 0
        /\ \E o \in SaveOutcomes :
             /\ Save(UpdateBranch(mem[p], loc[p].pid, branch), 1, 1, o)
             /\ Finish(p, IF o = "ok" THEN "ok" ELSE "error")
     \/ Fault /\ Finish(p, "error") /\ UNCHANGED fileVars
  /\ UNCHANGED <<made, worldVars>>

SpLoad(p) == LoadCommand(p, "stop", [c \in StopCommands |-> StatusCheck(c, "sp_stop")])

\* The check of the recorded status, getContainerByName, docker.stopContainer;
\* the runtime answers "already stopped" for a container that does not run,
\* which the client library throws.
SpStop(p) ==
  LET name == getContainerName(cmd[p].project, cmd[p].branch) IN
  /\ pc[p] = "sp_stop"
  /\ IF MemBranch(p).status = "stopped"
     THEN Finish(p, "ok") /\ UNCHANGED <<made, nfaults, worldVars, fileVars>>
     ELSE \/ /\ ~getContainerByName(name)
             /\ Finish(p, "user_error") /\ UNCHANGED <<made, nfaults, worldVars, fileVars>>
          \/ /\ IsRunning(name)
             /\ containers' = SetStatus(name, "exited")
             /\ Goto(p, "sp_update")
             /\ UNCHANGED <<mem, loc, made, nfaults, datasets, zsnaps, fileVars>>
          \/ /\ getContainerByName(name) /\ ~IsRunning(name)
             /\ Finish(p, "error") /\ UNCHANGED <<made, nfaults, worldVars, fileVars>>
          \/ /\ getContainerByName(name)
             /\ Fault /\ Finish(p, "error") /\ UNCHANGED <<made, worldVars, fileVars>>

\* branch.status = 'stopped', state.branches.update
SpUpdate(p) ==
  LET branch == [MemBranch(p) EXCEPT !.status = "stopped"] IN
  /\ pc[p] = "sp_update"
  /\ \E o \in SaveOutcomes :
       /\ Save(UpdateBranch(mem[p], loc[p].pid, branch), 1, 1, o)
       /\ Finish(p, IF o = "ok" THEN "ok" ELSE "error")
  /\ UNCHANGED <<made, worldVars>>

\* ------------------------------------------------- point-in-time recovery
\* Snapshot records in the state store given to the selection.
MaxSnapshots == 4
\* The latest creation time of a snapshot record.
MaxTime == 3

PitrBranches == {buildNamespace(<<"a">>, Main), buildNamespace(<<"a">>, <<"dev">>)}
NoSnapshot == [id |-> Null, branchName |-> <<>>, createdAt |-> 0, zfsSnapshot |-> NoSnap]

\* The snapshots of every branch.
getSnapshotsOfAll(doc, branchName) == doc.snapshots
\* StateManager.getSnapshotsForBranch
getSnapshotsForBranch(doc, branchName) ==
  SelectSeq(doc.snapshots, LAMBDA r : r.branchName = branchName)

\* Array.prototype.sort with the comparator b.createdAt - a.createdAt: newest
\* first, records of equal time in the order they had.
RECURSIVE SortNewestFirst(_)
SortNewestFirst(records) ==
  IF records = <<>> THEN <<>>
  ELSE LET rest == SortNewestFirst(Tail(records))
           k == Cardinality({i \in DOMAIN rest : rest[i].createdAt > Head(records).createdAt})
       IN  SubSeq(rest, 1, k) \o <<Head(records)>> \o SubSeq(rest, k + 1, Len(rest))

\* The selection taking the newest record of the branch whatever the target.
selectNewestSnapshot(sourceBranchName, recoveryTarget, doc) ==
  LET snapshots == getSnapshotsForBranch(doc, sourceBranchName) IN
  IF Len(snapshots) = 0
  THEN [error |-> "user_error", snapshot |-> NoSnapshot]
  ELSE [error |-> "none", snapshot |-> SortNewestFirst(snapshots)[1]]

\* selectSnapshotForPITR: the record it returns, or the UserError it throws.
\* zfsSnapshot is <dataset>@<name> in every record the commands write, so the
\* check of its format passes.
selectSnapshotForPITR(sourceBranchName, recoveryTarget, doc) ==
  LET snapshots == getSnapshotsForBranch(doc, sourceBranchName)
      validSnapshots == SelectSeq(snapshots, LAMBDA r : r.createdAt < recoveryTarget)
  IN  IF Len(validSnapshots) = 0
      THEN [error |-> "user_error", snapshot |-> NoSnapshot]
      ELSE [error |-> "none", snapshot |-> SortNewestFirst(validSnapshots)[1]]

\* A branch create --pitr at its selection: the state store holds up to
\* MaxSnapshots snapshot records of two branches, the recovery target is any
\* time from before the first to after the last record.
PitrInit ==
  /\ \E n \in 0..MaxSnapshots :
       \E names \in [1..n -> PitrBranches], times \in [1..n -> 1..MaxTime] :
         primaryFile = [EmptyDoc EXCEPT !.snapshots =
                          [i \in 1..n |->
                             [id |-> i, branchName |-> names[i], createdAt |-> times[i],
                              zfsSnapshot |-> FullSnapshotName(
                                getDatasetName(names[i][1], names[i][2]), times[i])]]]
  /\ backupFile = NoFile /\ tmpFile = NoFile /\ lockFile = NoFile
  /\ alive = [q \in Pids |-> q # StalePid]
  /\ spc = [p \in Procs |-> "idle"]
  /\ attempt = [p \in Procs |-> 0]
  /\ seenPid = [p \in Procs |-> StalePid]
  /\ lockLog = [p \in Procs |-> NoLog]
  /\ fd = [p \in Procs |-> "none"]
  /\ saveErr = [p \in Procs |-> FALSE]
  /\ nsaves = [p \in Procs |-> 0]
  /\ saveResult = [p \in Procs |-> "none"]
  /\ datasets = {} /\ zsnaps = {} /\ containers = {}
  /\ pc = [p \in Procs |-> IF p = 1 THEN "pitr_select" ELSE "idle"]
  /\ \E source \in PitrBranches, target \in 0..(MaxTime + 1) :
       cmd = [p \in Procs |->
                IF p = 1
                THEN [op |-> "branch_create", project |-> source[1], branch |-> <<"feat">>,
                      parent |-> source[2], force |-> FALSE, pitr |-> target]
                ELSE NoCmd]
  /\ mem = [p \in Procs |-> IF p = 1 THEN primaryFile ELSE NoFile]
  /\ loc = [p \in Procs |-> [selected |-> NoSnapshot]]
  /\ outcome = [p \in Procs |-> NoOutcome]
  /\ pre = [p \in Procs |-> NoFile]
  /\ made = [p \in Procs |-> MadeNone]
  /\ overlap = [p \in Procs |-> {}]
  /\ ncmds = 1 /\ nfaults = 0
  /\ run = [procs |-> {1}, cmds |-> 1, projects |-> {<<"a">>}, faults |-> 0, ports |-> 0]

\* The selection of branch create --pitr; a UserError ends the command.
PitrSelect(p) ==
  LET r == selectSnapshotForPITR(buildNamespace(cmd[p].project, cmd[p].parent),
                                 cmd[p].pitr, mem[p])
  IN
  /\ pc[p] = "pitr_select"
  /\ pc' = [pc EXCEPT ![p] = IF r.error = "none" THEN "pitr_selected" ELSE "idle"]
  /\ loc' = [loc EXCEPT ![p].selected = r.snapshot]
  /\ outcome' = [outcome EXCEPT ![p] = [res |-> IF r.error = "none" THEN "none" ELSE r.error,
                                        at |-> "pitr_select", op |-> cmd[p].op]]
  /\ UNCHANGED <<cmd, mem, pre, made, overlap, ncmds, nfaults, run, worldVars, fileVars>>
  /\ UNCHANGED lockOnlyVars

\* ------------------------------------------------- branch create --pitr
\* Commands of a run that recovers a branch to a point in time.
MaxRecoverCmds == 4

PitrCreateCommands ==
  {[op |-> "branch_create", project |-> q, branch |-> b, parent |-> s, force |-> FALSE,
    pitr |-> t] :
     q \in ProjectNames, b \in BranchNames, s \in BranchNames \cup {Main},
     t \in 0..(MaxTime + 1)}

\* The first checks of branch create; with --pitr the snapshot is selected.
BcPitrCheck(c) == [BcCheck(c) EXCEPT !.to = IF @ = "bc_checkpoint" THEN "bc_select" ELSE @]
BcPitrLoad(p) ==
  LoadCommand(p, "branch_create", [c \in PitrCreateCommands |-> BcPitrCheck(c)])

\* selectSnapshotForPITR, before the try block: its UserError ends the command;
\* createdSnapshot stays false.
BcSelect(p) ==
  LET r == selectSnapshotForPITR(buildNamespace(cmd[p].project, cmd[p].parent),
                                 cmd[p].pitr, mem[p])
  IN
  /\ pc[p] = "bc_select"
  /\ IF r.error = "none"
     THEN /\ loc' = [loc EXCEPT ![p].snap = r.snapshot.zfsSnapshot]
          /\ Goto(p, "bc_clone") /\ UNCHANGED mem
     ELSE Finish(p, r.error)
  /\ UNCHANGED <<made, nfaults, worldVars, fileVars>>

\* ------------------------------------------------- load of an edited file
\* state.json as another program or a person left it: LoadBase with up to
\* MaxEdits fields changed.
MaxEdits == 2

LoadBase ==
  LET a == <<"a">>
      b == <<"b">>
      dev == <<"dev">>
  IN [EmptyDoc EXCEPT !.projects =
        <<[NewProject(1, a, NewBranchPrimary(2, a, Main, Null, NoSnap)) EXCEPT
             !.branches = @ \o <<NewBranch(3, a, dev, 2, NoSnap)>>],
          NewProject(4, b, NewBranchPrimary(5, b, Main, Null, NoSnap))>>]

EditedFields == {"name", "projectName", "isPrimary", "parentBranchId", "zfsDataset"}
FieldValues(f) ==
  LET names == {<<"a">>, <<"b">>}
      leaves == {Main, <<"dev">>}
  IN CASE f = "name" ->
            {buildNamespace(q, l) : q \in names, l \in leaves} \cup {<<<<"dev">>>>}
       [] f = "projectName" -> names
       [] f = "isPrimary" -> BOOLEAN
       [] f = "parentBranchId" -> {Null, 2, 3, 5, 9}
       [] OTHER -> {getDatasetName(q, l) : q \in names, l \in leaves}

\* How many fields of the document differ from LoadBase.
Edits(doc) ==
  Cardinality({i \in DOMAIN doc.projects : doc.projects[i].name # LoadBase.projects[i].name})
  + Cardinality({<<i, k, f>> \in
                   (DOMAIN doc.projects) \X (1..2) \X EditedFields :
                   /\ k \in DOMAIN doc.projects[i].branches
                   /\ doc.projects[i].branches[k][f] # LoadBase.projects[i].branches[k][f]})

\* One field of the file is changed outside velo, before its commands run.
EditFile(p) ==
  /\ p \in run.procs /\ pc[p] = "idle" /\ outcome[p] = NoOutcome /\ ncmds = 0
  /\ \E i \in DOMAIN primaryFile.projects :
       \/ \E v \in FieldValues("projectName") :
            primaryFile' = [primaryFile EXCEPT !.projects[i].name = v]
       \/ \E k \in DOMAIN primaryFile.projects[i].branches, f \in EditedFields :
            \E v \in FieldValues(f) :
              primaryFile' = [primaryFile EXCEPT !.projects[i].branches[k][f] = v]
  /\ primaryFile' # primaryFile
  /\ Edits(primaryFile') <= MaxEdits
  /\ UNCHANGED <<backupFile, worldVars, cmdVars>>
  /\ UNCHANGED lockOnlyVars

\* statusCommand up to state.load(): load throws when validate does.
StatusCommands == {[NoCmd EXCEPT !.op = "status", !.project = q] : q \in ProjectNames}
LdLoad(p) ==
  LoadCommand(p, "status",
              [c \in StatusCommands |-> [res |-> "ok", to |-> "ld_loaded", locals |-> LocInit]])
LdLoaded(p) ==
  /\ pc[p] = "ld_loaded"
  /\ Finish(p, "ok")
  /\ UNCHANGED <<made, nfaults, worldVars, fileVars>>

\* The invariants of the data model.
UniqueNames(doc) ==
  /\ \A i, j \in DOMAIN doc.projects :
       i # j => doc.projects[i].name # doc.projects[j].name
  /\ \A k, l \in DOMAIN listAll(doc) :
       k # l => listAll(doc)[k].name # listAll(doc)[l].name
NamesNamespaced(doc) ==
  \A q \in Range(doc.projects) : \A b \in Range(q.branches) :
    Len(b.name) = 2 /\ b.name[1] = q.name
OnePrimary(doc) ==
  \A q \in Range(doc.projects) :
    /\ Cardinality({k \in DOMAIN q.branches : q.branches[k].isPrimary}) = 1
    /\ \A b \in Range(q.branches) : b.isPrimary => b.parentBranchId = Null
ParentsResolve(doc) ==
  \A q \in Range(doc.projects) : \A b \in Range(q.branches) :
    ~b.isPrimary => \E c \in Range(q.branches) : c.id = b.parentBranchId
UniqueDatasets(doc) ==
  \A k, l \in DOMAIN listAll(doc) :
    k # l => listAll(doc)[k].zfsDataset # listAll(doc)[l].zfsDataset
DataModelInvariants(doc) ==
  /\ UniqueNames(doc) /\ NamesNamespaced(doc) /\ OnePrimary(doc)
  /\ ParentsResolve(doc) /\ UniqueDatasets(doc)

\* ------------------------------------------------- orphan detection, cleanup
CONTAINER_PREFIX == "velo"
\* Datasets of another type than filesystem, as zfs list reports them.
VolumeNames == {<<"swap">>}

\* A set as a list, in the order the listing command prints it.
RECURSIVE ListOf(_)
ListOf(S) ==
  IF S = {} THEN <<>>
  ELSE LET x == CHOOSE y \in S : TRUE IN <<x>> \o ListOf(S \ {x})
RECURSIVE Sum(_)
Sum(ns) == IF ns = <<>> THEN 0 ELSE Head(ns) + Sum(Tail(ns))

\* zfs.listDatasets: zfs list -r of the base: the base itself, with the
\* empty path below the base, and every dataset under it.
listDatasets ==
  <<[path |-> <<>>, type |-> "filesystem", used |-> 1]>>
  \o ListOf({[path |-> <<d.name>>,
              type |-> IF d.name \in VolumeNames THEN "volume" ELSE "filesystem",
              used |-> Len(d.name)] : d \in datasets})
\* docker.listContainers: all containers, running or not.
listContainers == ListOf({[name |-> c.name, state |-> c.status] : c \in containers})

\* extractDatasetName: the path below '<pool>/<base>/', null (here <<>>) for
\* a path that does not start with that prefix, as the base itself.
extractDatasetName(path) == IF Len(path) = 0 THEN <<>> ELSE path[1]

expectedDatasets(doc) == {b.zfsDataset : b \in Range(listAll(doc))}
expectedContainers(doc) ==
  {getContainerName(b.name[1], b.name[2]) : b \in Range(listAll(doc))}

\* The detector that reports every listed dataset and container.
detectAll(doc, actualDatasets, actualContainers) ==
  [datasets |-> [i \in DOMAIN actualDatasets |->
                   [name |-> extractDatasetName(actualDatasets[i].path),
                    sizeBytes |-> actualDatasets[i].used]],
   containers |-> [i \in DOMAIN actualContainers |-> [name |-> actualContainers[i].name]],
   totalOrphans |-> Len(actualDatasets) + Len(actualContainers),
   totalWastedBytes |-> Sum([i \in DOMAIN actualDatasets |-> actualDatasets[i].used])]

\* detectOrphans(state, zfs, docker) on the two listings.
detectOrphans(doc, actualDatasets, actualContainers) ==
  LET IsOrphanDataset(e) ==
        /\ e.type = "filesystem"
        /\ extractDatasetName(e.path) # <<>>
        /\ extractDatasetName(e.path) \notin expectedDatasets(doc)
      IsOrphanContainer(c) ==
        /\ Len(c.name) > 0 /\ Head(c.name) = CONTAINER_PREFIX
        /\ c.name \notin expectedContainers(doc)
      found == SelectSeq(actualDatasets, IsOrphanDataset)
      orphanedDatasets ==
        [i \in DOMAIN found |-> [name |-> extractDatasetName(found[i].path),
                                 sizeBytes |-> found[i].used]]
      kept == SelectSeq(actualContainers, IsOrphanContainer)
      orphanedContainers == [i \in DOMAIN kept |-> [name |-> kept[i].name]]
  IN [datasets |-> orphanedDatasets,
      containers |-> orphanedContainers,
      totalOrphans |-> Len(orphanedDatasets) + Len(orphanedContainers),
      totalWastedBytes |-> Sum([i \in DOMAIN orphanedDatasets |->
                                  orphanedDatasets[i].sizeBytes])]

\* The detector on the state file and the resources as they are now.
OrphansNow == detectOrphans(primaryFile, listDatasets, listContainers)

NoResult == [datasets |-> <<>>, containers |-> <<>>, totalOrphans |-> 0,
             totalWastedBytes |-> 0]
CleanupLocals == [result |-> NoResult, detected |-> FALSE, i |-> 1,
                  attempts |-> <<>>, errors |-> <<>>]
CleanupCommands ==
  {[op |-> "cleanup", project |-> q, branch |-> <<>>, parent |-> <<>>, force |-> f,
    dryRun |-> d] : q \in ProjectNames, f \in BOOLEAN, d \in BOOLEAN}

\* cleanupCommand: initializeServices loads the state.
ClLoad(p) ==
  LoadCommand(p, "cleanup",
              [c \in CleanupCommands |->
                 IF primaryFile = NoFile
                 THEN [res |-> "user_error", to |-> "idle", locals |-> CleanupLocals]
                 ELSE [res |-> "ok", to |-> "cl_detect", locals |-> CleanupLocals]])

\* cleanupCommand returns: the process keeps what it detected and attempted.
ClReturn(p) ==
  /\ pc' = [pc EXCEPT ![p] = "idle"]
  /\ outcome' = [outcome EXCEPT ![p] = [res |-> "ok", at |-> pc[p], op |-> cmd[p].op]]
  /\ mem' = [mem EXCEPT ![p] = NoFile]
  /\ UNCHANGED <<cmd, pre, overlap, ncmds, run, made, nfaults, worldVars, fileVars>>
  /\ UNCHANGED lockOnlyVars

\* detectOrphans; nothing found, --dry-run or a declined confirmation return.
ClDetect(p) ==
  LET result == detectOrphans(mem[p], listDatasets, listContainers) IN
  /\ pc[p] = "cl_detect"
  /\ loc' = [loc EXCEPT ![p].result = result, ![p].detected = TRUE]
  /\ \/ /\ result.totalOrphans = 0 \/ cmd[p].dryRun \/ ~cmd[p].force
        /\ ClReturn(p)
     \/ /\ result.totalOrphans # 0 /\ ~cmd[p].dryRun
        /\ Goto(p, "cl_containers")
        /\ UNCHANGED <<mem, made, nfaults, worldVars, fileVars>>

\* One round of one of the two removal loops: the attempt succeeds or its
\* error is collected.
Attempt(p, kind, name, ok) ==
  loc' = [loc EXCEPT ![p].i = @ + 1,
                     ![p].attempts = Append(@, [kind |-> kind, name |-> name]),
                     ![p].errors = IF ok THEN @ ELSE Append(@, name)]

\* The container loop without its try/catch: a failed removal ends the command.
ClContainerAborts(p) ==
  /\ pc[p] = "cl_containers"
  /\ IF loc[p].i > Len(loc[p].result.containers)
     THEN /\ loc' = [loc EXCEPT ![p].i = 1]
          /\ Goto(p, "cl_datasets") /\ UNCHANGED <<containers, mem>>
     ELSE LET name == loc[p].result.containers[loc[p].i].name IN
          \/ /\ getContainerByName(name)
             /\ containers' = WithoutContainers({name})
             /\ Attempt(p, "container", name, TRUE)
             /\ Goto(p, "cl_containers") /\ UNCHANGED mem
          \/ UNCHANGED containers /\ Finish(p, "error")
  /\ UNCHANGED <<made, nfaults, datasets, zsnaps, fileVars>>

\* for (const container of result.containers): docker.removeContainer.
ClContainer(p) ==
  /\ pc[p] = "cl_containers"
  /\ IF loc[p].i > Len(loc[p].result.containers)
     THEN /\ loc' = [loc EXCEPT ![p].i = 1]
          /\ Goto(p, "cl_datasets") /\ UNCHANGED containers
     ELSE LET name == loc[p].result.containers[loc[p].i].name IN
          /\ \/ /\ getContainerByName(name)
                /\ containers' = WithoutContainers({name})
                /\ Attempt(p, "container", name, TRUE)
             \/ UNCHANGED containers /\ Attempt(p, "container", name, FALSE)
          /\ Goto(p, "cl_containers")
  /\ UNCHANGED <<mem, made, nfaults, datasets, zsnaps, fileVars>>

\* for (const dataset of result.datasets): zfs.destroyDataset(name, true).
ClDataset(p) ==
  /\ pc[p] = "cl_datasets"
  /\ IF loc[p].i > Len(loc[p].result.datasets)
     THEN /\ Goto(p, "cl_summary") /\ UNCHANGED <<loc, datasets, zsnaps>>
     ELSE LET name == loc[p].result.datasets[loc[p].i].name IN
          /\ \/ /\ datasetExists(name)
                /\ datasets' = DatasetsAfterDestroy(name)
                /\ zsnaps' = SnapsAfterDestroy(name)
                /\ Attempt(p, "dataset", name, TRUE)
             \/ UNCHANGED <<datasets, zsnaps>> /\ Attempt(p, "dataset", name, FALSE)
          /\ Goto(p, "cl_datasets")
  /\ UNCHANGED <<mem, made, nfaults, containers, fileVars>>

\* The summary with the collected errors; the command returns.
ClSummary(p) ==
  /\ pc[p] = "cl_summary"
  /\ ClReturn(p) /\ UNCHANGED loc

\* ------------------------------------------------- the specifications

LockInit ==
  /\ lockFile \in {NoFile, LockOf(StalePid, TRUE)}
  /\ tmpFile = NoFile
  /\ primaryFile \in {NoFile, InitialDoc}
  /\ backupFile = NoFile
  /\ alive = [q \in Pids |-> q # StalePid]
  /\ spc = [p \in Procs |-> "idle"]
  /\ attempt = [p \in Procs |-> 0]
  /\ seenPid = [p \in Procs |-> StalePid]
  /\ lockLog = [p \in Procs |-> NoLog]
  /\ fd = [p \in Procs |-> "none"]
  /\ saveErr = [p \in Procs |-> FALSE]
  /\ nsaves = [p \in Procs |-> 0]
  /\ saveResult = [p \in Procs |-> "none"]
  /\ CmdInit({}, 0, {}, 0)

LockNext ==
  \E p \in Procs :
    \/ StartSave(p) \/ LockTimeout(p) \/ TryCreate(p) \/ WritePid(p)
    \/ ReadLock(p) \/ Probe(p) \/ UnlinkStale(p)
    \/ OpenTmp(p) \/ WriteTmp(p) \/ Backup(p) \/ Rename(p) \/ DirSync(p)
    \/ ReleaseLock(p) \/ ProcessEnds(p)

\* Processes saving through the lock file; no command runs.
SpecLock == LockInit /\ [][LockNext]_vars

Next ==
  \E p \in Procs :
    \/ PcLoad(p) \/ PcInit(p) \/ PcDataset(p) \/ PcMount(p) \/ PcContainer(p)
    \/ PcStart(p) \/ PcWait(p) \/ PcAdd(p)
    \/ BcLoad(p) \/ BcCheckpoint(p) \/ BcSnapshot(p) \/ BcClone(p) \/ BcMount(p)
    \/ BcWal(p) \/ BcContainer(p) \/ BcStart(p) \/ BcWait(p) \/ BcAdd(p)
    \/ BcRollback(p)
    \/ BrLoad(p) \/ BrDepContainer(p) \/ BrDepSnapshots(p) \/ BrDepBranch(p)
    \/ BrStop(p) \/ BrCheckpoint(p) \/ BrSnapshot(p) \/ BrClone(p)
    \/ BrMountTemp(p) \/ BrUnmount(p) \/ BrRenameOld(p) \/ BrUnmountTemp(p)
    \/ BrRenameTemp(p) \/ BrMount(p) \/ BrDestroyOld(p) \/ BrWal(p)
    \/ BrContainer(p) \/ BrStart(p) \/ BrWait(p) \/ BrSnapshots(p) \/ BrUpdate(p)
    \/ BdLoad(p) \/ BdContainers(p) \/ BdWal(p) \/ BdSnapshots(p)
    \/ BdDestroy(p) \/ BdRecords(p)
    \/ PdLoad(p) \/ PdContainers(p) \/ PdDestroy(p) \/ PdWal(p) \/ PdRemove(p)
    \/ ScLoad(p) \/ ScCheckpoint(p) \/ ScSnapshot(p) \/ ScAdd(p)

\* Controller processes running commands.
Spec == Init /\ [][Next]_vars

\* One process running project create, start, stop and snapshot create one
\* after the other with failing external calls, or NProcs processes running
\* them concurrently without.
StatusInit ==
  /\ primaryFile = NoFile /\ backupFile = NoFile
  /\ LockIdle
  /\ \/ CmdInit({1}, MaxStatusCmds, {<<"a">>}, MaxFaults)
     \/ CmdInit(Procs, MaxStatusCmds, {<<"a">>}, 0)

StatusNext ==
  \E p \in Procs :
    \/ PcLoad(p) \/ PcInit(p) \/ PcDataset(p) \/ PcMount(p) \/ PcContainer(p)
    \/ PcStart(p) \/ PcWait(p) \/ PcAdd(p)
    \/ StLoad(p) \/ StStart(p) \/ StWait(p) \/ StUpdate(p)
    \/ SpLoad(p) \/ SpStop(p) \/ SpUpdate(p)
    \/ ScLoad(p) \/ ScCheckpoint(p) \/ ScSnapshot(p) \/ ScAdd(p)

SpecStatus == StatusInit /\ [][StatusNext]_vars

PitrNext == \E p \in Procs : PitrSelect(p)

\* One process running project create, snapshot create and branch create
\* --pitr one after the other, with failing external calls.
RecoverInit ==
  /\ primaryFile = NoFile /\ backupFile = NoFile
  /\ LockIdle
  /\ CmdInit({1}, MaxRecoverCmds, {<<"a">>}, MaxFaults)

RecoverNext ==
  \E p \in Procs :
    \/ PcLoad(p) \/ PcInit(p) \/ PcDataset(p) \/ PcMount(p) \/ PcContainer(p)
    \/ PcStart(p) \/ PcWait(p) \/ PcAdd(p)
    \/ ScLoad(p) \/ ScCheckpoint(p) \/ ScSnapshot(p) \/ ScAdd(p)
    \/ BcPitrLoad(p) \/ BcSelect(p) \/ BcClone(p) \/ BcMount(p)
    \/ BcWal(p) \/ BcContainer(p) \/ BcStart(p) \/ BcWait(p) \/ BcAdd(p)
    \/ BcRollback(p)

SpecRecover == RecoverInit /\ [][RecoverNext]_vars

\* The snapshot selection of point-in-time recovery on every bounded input.
SpecPitr == PitrInit /\ [][PitrNext]_vars

\* One process loading a state file that was edited before its commands.
MaxLoads == 1
LoadInit ==
  /\ primaryFile = LoadBase /\ backupFile = NoFile
  /\ LockIdle
  /\ CmdInit({1}, MaxLoads, ProjectNames, 0)

LoadNext == \E p \in Procs : EditFile(p) \/ LdLoad(p) \/ LdLoaded(p)

SpecLoad == LoadInit /\ [][LoadNext]_vars

\* One process running project create, branch create, snapshot create and
\* branch reset one after the other, with failing external calls, on a
\* runtime that assigns any free host port of 1..MaxPorts.
MaxResetCmds == 4
MaxPorts == 3
ResetInit ==
  /\ primaryFile = NoFile /\ backupFile = NoFile
  /\ LockIdle
  /\ CmdInitPorts({1}, MaxResetCmds, {<<"a">>}, MaxFaults, MaxPorts)

ResetNext ==
  \E p \in Procs :
    \/ PcLoad(p) \/ PcInit(p) \/ PcDataset(p) \/ PcMount(p) \/ PcContainer(p)
    \/ PcStart(p) \/ PcWait(p) \/ PcAdd(p)
    \/ BcLoad(p) \/ BcCheckpoint(p) \/ BcSnapshot(p) \/ BcClone(p) \/ BcMount(p)
    \/ BcWal(p) \/ BcContainer(p) \/ BcStart(p) \/ BcWait(p) \/ BcAdd(p)
    \/ BcRollback(p)
    \/ ScLoad(p) \/ ScCheckpoint(p) \/ ScSnapshot(p) \/ ScAdd(p)
    \/ BrLoad(p) \/ BrDepContainer(p) \/ BrDepSnapshots(p) \/ BrDepBranch(p)
    \/ BrStop(p) \/ BrCheckpoint(p) \/ BrSnapshot(p) \/ BrClone(p)
    \/ BrMountTemp(p) \/ BrUnmount(p) \/ BrRenameOld(p) \/ BrUnmountTemp(p)
    \/ BrRenameTemp(p) \/ BrMount(p) \/ BrDestroyOld(p) \/ BrWal(p)
    \/ BrContainer(p) \/ BrStart(p) \/ BrWait(p) \/ BrSnapshots(p) \/ BrUpdate(p)

SpecReset == ResetInit /\ [][ResetNext]_vars

\* ---- save and restore by one process
\* Calls of restoreFromBackup in one run.
MaxRestores == 2
RestoreInit ==
  /\ primaryFile \in {NoFile, InitialDoc} /\ backupFile = NoFile
  /\ LockIdle
  /\ CmdInit({1}, MaxRestores, {}, 0)
RestoreNext ==
  \E p \in {1} :
    \/ StartSave(p) \/ TryCreate(p) \/ WritePid(p)
    \/ OpenTmp(p) \/ WriteTmp(p) \/ Backup(p) \/ Rename(p) \/ DirSync(p)
    \/ ReleaseLock(p) \/ restoreFromBackup(p)
\* One process that saves and restores; nothing else touches the files, so the
\* lock file is never found held and acquireLock returns at its first attempt.
SpecRestore == RestoreInit /\ [][RestoreNext]_vars

\* ---- names with a hyphen
\* validateName admits [A-Za-z0-9_-]+ on both sides of the '/': a name is a
\* sequence of hyphen-free parts, and <project>-<branch> joins the parts of
\* both. Project a-b with branch main and project a with branch b-main have
\* the dataset a-b-main and the container velo-a-b-main.
HyphenProjects == {<<"a">>, <<"a", "b">>}
HyphenBranches == {<<"dev">>, <<"b", "main">>}
HyphenProjectCreateCommands ==
  {[op |-> "project_create", project |-> q, branch |-> <<>>, parent |-> <<>>, force |-> FALSE] :
     q \in HyphenProjects}
HyphenBranchCreateCommands ==
  {[op |-> "branch_create", project |-> q, branch |-> b, parent |-> Main, force |-> FALSE] :
     q \in HyphenProjects, b \in HyphenBranches}
HyPcLoad(p) ==
  LoadCommand(p, "project_create", [c \in HyphenProjectCreateCommands |-> PcCheck(c)])
HyBcLoad(p) ==
  LoadCommand(p, "branch_create", [c \in HyphenBranchCreateCommands |-> BcCheck(c)])

\* Commands of one process in the runs with hyphenated names.
MaxHyphenCmds == 3
HyphenInit ==
  /\ primaryFile = NoFile /\ backupFile = NoFile
  /\ LockIdle
  /\ CmdInit({1}, MaxHyphenCmds, HyphenProjects, MaxFaults)
HyphenNext ==
  \E p \in Procs :
    \/ HyPcLoad(p) \/ PcInit(p) \/ PcDataset(p) \/ PcMount(p) \/ PcContainer(p)
    \/ PcStart(p) \/ PcWait(p) \/ PcAdd(p)
    \/ HyBcLoad(p) \/ BcCheckpoint(p) \/ BcSnapshot(p) \/ BcClone(p) \/ BcMount(p)
    \/ BcWal(p) \/ BcContainer(p) \/ BcStart(p) \/ BcWait(p) \/ BcAdd(p)
    \/ BcRollback(p)
\* One process creating projects and branches whose names contain hyphens.
SpecHyphen == HyphenInit /\ [][HyphenNext]_vars

\* ---- cleanup beside a project create
\* Commands the two processes run in total.
MaxRaceCmds == 3
RaceInit ==
  /\ primaryFile = NoFile /\ backupFile = NoFile
  /\ LockIdle
  /\ CmdInit(Procs, MaxRaceCmds, {<<"a">>}, 0)
RaceNext ==
  \/ \E p \in {1} :
       \/ PcLoad(p) \/ PcInit(p) \/ PcDataset(p) \/ PcMount(p) \/ PcContainer(p)
       \/ PcStart(p) \/ PcWait(p) \/ PcAdd(p)
  \/ \E p \in {2} :
       ClLoad(p) \/ ClDetect(p) \/ ClContainer(p) \/ ClDataset(p) \/ ClSummary(p)
\* Process 1 creates projects while process 2 runs cleanup.
SpecRace == RaceInit /\ [][RaceNext]_vars

\* ------------------------------------------------- the saves of one process
\* branch delete starts its repository deletions together (Promise.all), so
\* the save() calls of ONE process overlap. In these runs the indices of Procs
\* are those calls. They share process.pid: the probe process.kill(lockPid, 0)
\* of a waiting call finds the holder alive. They share this.state, which every
\* deletion has changed before the first writeFile of a lock returns: each call
\* serialises the same document, DocOf(t, MaxSaves) for every call t.
\* run.faults tells whether a process killed inside save left its lock file
\* behind, written or still empty.
TasksInit ==
  /\ lockFile \in {NoFile, LockOf(StalePid, TRUE), LockOf(StalePid, FALSE)}
  /\ tmpFile = NoFile /\ primaryFile = InitialDoc /\ backupFile = NoFile
  /\ alive = [q \in Pids |-> q # StalePid]
  /\ spc = [p \in Procs |-> "idle"]
  /\ attempt = [p \in Procs |-> 0]
  /\ seenPid = [p \in Procs |-> StalePid]
  /\ lockLog = [p \in Procs |-> NoLog]
  /\ fd = [p \in Procs |-> "none"]
  /\ saveErr = [p \in Procs |-> FALSE]
  /\ nsaves = [p \in Procs |-> MaxSaves - 1]
  /\ saveResult = [p \in Procs |-> "none"]
  /\ CmdInit({}, 0, {}, IF lockFile = NoFile THEN 0 ELSE 1)

\* The calls that have created the lock file.
Acquired ==
  {q \in Procs : \/ spc[q] \in {"wpid", "open_tmp", "write_tmp", "backup", "rename",
                                "dirsync", "release"}
                 \/ spc[q] = "idle" /\ saveResult[q] \in {"ok", "error"}}

\* Bun.sleep(100) outlasts the save it waits for, a handful of operations on
\* local files: a call wakes when the holder that made it sleep has released.
\* The lock file it meets after k sleeps is of another holder than the k
\* files it met before, or is the one a dead process left. The attempt that
\* unlinked that one went on without a sleep (`continue`).
SleepOutlastsSave(p) ==
  IF lockFile = NoFile THEN TRUE
  ELSE \/ lockFile.creator = StalePid
       \/ attempt[p] < Cardinality(Acquired \ {p}) + run.faults

\* One turn of acquireLock's loop, after the sleep if there was one.
TimedTryCreate(p) == SleepOutlastsSave(p) /\ TryCreate(p)

TasksNext ==
  \E p \in Procs :
    \/ StartSave(p) \/ LockTimeout(p) \/ TimedTryCreate(p)
    \/ WritePid(p) \/ ReadLock(p) \/ Probe(p) \/ UnlinkStale(p)
    \/ OpenTmp(p) \/ WriteTmp(p) \/ Backup(p) \/ Rename(p) \/ DirSync(p)
    \/ ReleaseLock(p)

\* The concurrent save() calls of one branch delete.
SpecTasks == TasksInit /\ [][TasksNext]_vars

\* ------------------------------------------------- a lock file left behind
\* Processes that stay alive call save while the lock file of a process that
\* died is in the way. They probe and sleep as the calls of one process do
\* (every live pid answers process.kill(pid, 0)), so the steps are TasksNext.
\* Each process that is inside save takes its next step at some time: the
\* runtime resumes every awaited file operation and every sleep.
StaleInit == TasksInit /\ lockFile # NoFile

SaveStep(p) ==
  \/ StartSave(p) \/ LockTimeout(p) \/ TimedTryCreate(p)
  \/ WritePid(p) \/ ReadLock(p) \/ Probe(p) \/ UnlinkStale(p)
  \/ OpenTmp(p) \/ WriteTmp(p) \/ Backup(p) \/ Rename(p) \/ DirSync(p)
  \/ ReleaseLock(p)

SpecStale ==
  StaleInit /\ [][TasksNext]_vars /\ \A p \in Procs : WF_vars(SaveStep(p))

\* ------------------------------------------------- snapshot delete, cleanup
\* `zfs destroy <snapshot>`: refused for a snapshot that does not exist or
\* that a dataset was cloned from.
HasClones(snap) == \E d \in datasets : d.origin = snap
CanDestroySnapshot(snap) == snap \in zsnaps /\ ~HasClones(snap)

SnapshotIds(doc) == IF IsDoc(doc) THEN {r.id : r \in Range(doc.snapshots)} ELSE {}
\* snapshot delete <id>: the ids of the records, and one no record has.
SnapshotDeleteCommands ==
  {[op |-> "snapshot_delete", project |-> q, branch |-> <<>>, parent |-> <<>>,
    force |-> FALSE, id |-> i] :
     q \in ProjectNames, i \in SnapshotIds(primaryFile) \cup {Null}}
\* snapshot cleanup <branch> or --all, with --days and --dry-run; cutoff is
\* the time --days before now.
SnapshotCleanupCommands ==
  {[op |-> "snapshot_cleanup", project |-> q, branch |-> b, parent |-> <<>>,
    force |-> FALSE, all |-> a, cutoff |-> t, dryRun |-> d] :
     q \in ProjectNames, b \in BranchNames \cup {Main}, a \in BOOLEAN,
     t \in 1..(MaxTime + 1), d \in BOOLEAN}

\* SnapshotRepository.getById
getById(doc, id) ==
  LET found == SelectSeq(doc.snapshots, LAMBDA r : r.id = id) IN
  IF found = <<>> THEN NoSnapshot ELSE found[1]
\* SnapshotRepository.delete's splice
DeleteSnapshot(doc, id) ==
  [doc EXCEPT !.snapshots = SelectSeq(@, LAMBDA r : r.id # id)]
\* SnapshotRepository.deleteOld's filter: the records to delete.
OldSnapshots(doc, c) ==
  SelectSeq(doc.snapshots,
            LAMBDA r : /\ r.createdAt < c.cutoff
                       /\ c.all \/ r.branchName = buildNamespace(c.project, c.branch))
DeleteOld(doc, c) ==
  [doc EXCEPT !.snapshots =
     SelectSeq(@, LAMBDA r : ~(/\ r.createdAt < c.cutoff
                               /\ c.all \/ r.branchName = buildNamespace(c.project, c.branch)))]

\* initializeServices, state.snapshots.getById
SdCheck(c) ==
  LET doc == primaryFile IN
  IF doc = NoFile THEN Refused("error")
  ELSE IF getById(doc, c.id) = NoSnapshot THEN Refused("user_error")
  ELSE Accepted("sd_destroy", [LocInit EXCEPT !.snap = getById(doc, c.id).zfsSnapshot])
SdLoad(p) == LoadCommand(p, "snapshot_delete", [c \in SnapshotDeleteCommands |-> SdCheck(c)])

\* zfs.destroySnapshot(snapshot.zfsSnapshot)
SdDestroy(p) ==
  /\ pc[p] = "sd_destroy"
  /\ \/ /\ CanDestroySnapshot(loc[p].snap)
        /\ zsnaps' = zsnaps \ {loc[p].snap}
        /\ Goto(p, "sd_remove") /\ UNCHANGED <<mem, loc, made, nfaults, fileVars>>
     \/ /\ ~CanDestroySnapshot(loc[p].snap)
        /\ Finish(p, "error") /\ UNCHANGED <<made, nfaults, zsnaps, fileVars>>
     \/ Fault /\ Finish(p, "error") /\ UNCHANGED <<made, zsnaps, fileVars>>
  /\ UNCHANGED <<datasets, containers>>

\* state.snapshots.delete(snapshotId)
SdRemove(p) ==
  /\ pc[p] = "sd_remove"
  /\ \E o \in SaveOutcomes :
       /\ Save(DeleteSnapshot(mem[p], cmd[p].id), 1, 1, o)
       /\ Finish(p, IF o = "ok" THEN "ok" ELSE "error")
  /\ UNCHANGED <<made, worldVars>>

\* initializeServices; with a branch name, getBranchWithProject
SxCheck(c) ==
  LET doc == primaryFile IN
  IF doc = NoFile THEN Refused("error")
  ELSE IF ~c.all /\ NamespaceIndex(doc, buildNamespace(c.project, c.branch)) = 0
  THEN Refused("user_error")
  ELSE Accepted("sx_old", LocInit)
SxLoad(p) == LoadCommand(p, "snapshot_cleanup", [c \in SnapshotCleanupCommands |-> SxCheck(c)])

\* state.snapshots.deleteOld: the old records leave the document and it is
\* saved, unless --dry-run; the command returns when there are none or after
\* the listing of a dry run.
SxOld(p) ==
  LET old == OldSnapshots(mem[p], cmd[p])
      doc == DeleteOld(mem[p], cmd[p])
  IN
  /\ pc[p] = "sx_old"
  /\ IF cmd[p].dryRun
     THEN Finish(p, "ok") /\ UNCHANGED <<nfaults, fileVars>>
     ELSE \E o \in SaveOutcomes :
            /\ Save(doc, 1, 1, o)
            /\ IF o # "ok" THEN Finish(p, "error")
               ELSE IF old = <<>> THEN Finish(p, "ok")
               ELSE /\ mem' = [mem EXCEPT ![p] = doc]
                    /\ loc' = [loc EXCEPT ![p].queue = old]
                    /\ Goto(p, "sx_destroy")
  /\ UNCHANGED <<made, worldVars>>

\* One round of the loop: try { zfs.destroySnapshot(snap.zfsSnapshot) } catch
\* { warning }; after the last round 'Deleted n snapshot(s)'.
SxDestroy(p) ==
  LET snap == loc[p].queue[loc[p].i].zfsSnapshot
      last == loc[p].i = Len(loc[p].queue)
  IN
  /\ pc[p] = "sx_destroy"
  /\ \/ /\ zsnaps' = IF CanDestroySnapshot(snap) THEN zsnaps \ {snap} ELSE zsnaps
        /\ UNCHANGED nfaults
     \/ Fault /\ UNCHANGED zsnaps
  /\ IF last
     THEN Finish(p, "ok")
     ELSE loc' = [loc EXCEPT ![p].i = @ + 1] /\ Goto(p, pc[p]) /\ UNCHANGED mem
  /\ UNCHANGED <<made, datasets, containers, fileVars>>

\* One process creating a project, taking snapshots, recovering a branch from
\* one and removing snapshots, with failing external calls.
MaxSnapCmds == 4

SnapInit ==
  /\ primaryFile = NoFile /\ backupFile = NoFile
  /\ LockIdle
  /\ CmdInit({1}, MaxSnapCmds, {<<"a">>}, MaxFaults)

SnapNext ==
  \E p \in Procs :
    \/ PcLoad(p) \/ PcInit(p) \/ PcDataset(p) \/ PcMount(p) \/ PcContainer(p)
    \/ PcStart(p) \/ PcWait(p) \/ PcAdd(p)
    \/ ScLoad(p) \/ ScCheckpoint(p) \/ ScSnapshot(p) \/ ScAdd(p)
    \/ BcPitrLoad(p) \/ BcSelect(p) \/ BcClone(p) \/ BcMount(p)
    \/ BcWal(p) \/ BcContainer(p) \/ BcStart(p) \/ BcWait(p) \/ BcAdd(p)
    \/ BcRollback(p)
    \/ SdLoad(p) \/ SdDestroy(p) \/ SdRemove(p)
    \/ SxLoad(p) \/ SxOld(p) \/ SxDestroy(p)

SpecSnap == SnapInit /\ [][SnapNext]_vars

\* One process running cleanup on a state file and on resources of which
\* some are tracked, some are not, one is a volume and one container carries
\* another prefix.
CleanupDocs ==
  LET a == <<"a">>
      main == NewBranchPrimary(2, a, Main, Null, NoSnap)
      dev == NewBranch(3, a, <<"dev">>, 2, NoSnap)
  IN {EmptyDoc,
      [EmptyDoc EXCEPT !.projects = <<NewProject(1, a, main)>>],
      [EmptyDoc EXCEPT !.projects =
         <<[NewProject(1, a, main) EXCEPT !.branches = @ \o <<dev>>]>>]}
CleanupDatasetNames == {<<"a", "main">>, <<"a", "dev">>, <<"ghost">>} \cup VolumeNames
CleanupContainerNames ==
  {<<"velo", "a", "main">>, <<"velo", "a", "dev">>, <<"velo", "ghost">>, <<"pg", "ghost">>}

CleanupInit ==
  /\ primaryFile \in CleanupDocs /\ backupFile = NoFile
  /\ LockIdle
  /\ \E D \in SUBSET CleanupDatasetNames :
       datasets = {[name |-> n, origin |-> NoSnap, mounted |-> TRUE] : n \in D}
  /\ zsnaps = {}
  /\ \E C \in SUBSET CleanupContainerNames :
       containers = {[NewContainer(n, 0) EXCEPT !.status = "exited"] : n \in C}
  /\ pc = [p \in Procs |-> "idle"]
  /\ cmd = [p \in Procs |-> NoCmd]
  /\ mem = [p \in Procs |-> NoFile]
  /\ loc = [p \in Procs |-> CleanupLocals]
  /\ outcome = [p \in Procs |-> NoOutcome]
  /\ pre = [p \in Procs |-> NoFile]
  /\ made = [p \in Procs |-> MadeNone]
  /\ overlap = [p \in Procs |-> {}]
  /\ ncmds = 0 /\ nfaults = 0
  /\ run = [procs |-> {1}, cmds |-> 1, projects |-> {<<"a">>}, faults |-> 0, ports |-> 0]

CleanupNext ==
  \E p \in Procs :
    ClLoad(p) \/ ClDetect(p) \/ ClContainer(p) \/ ClDataset(p) \/ ClSummary(p)

SpecCleanup == CleanupInit /\ [][CleanupNext]_vars


\* ------------------------------------------------- properties
\* Between a successful acquireLock and releaseLock.
InCriticalSection(p) ==
  alive[p] /\ spc[p] \in {"open_tmp", "write_tmp", "backup", "rename", "dirsync", "release"}

\* The last command of p got past its first checks and has ended.
Finished(p) == pc[p] = "idle" /\ cmd[p].op # "none" /\ outcome[p].res # "none"
Failed(p) == Finished(p) /\ outcome[p].res # "ok"
\* p is the only controller process of the run.
Alone(p) == run.procs = {p}
ProjectsNamed(doc, name) == {i \in DOMAIN doc.projects : doc.projects[i].name = name}
PrimariesOf(project) == {k \in DOMAIN project.branches : project.branches[k].isPrimary}
BranchesNamed(doc, name) == {b \in AllBranches(doc) : b.name = name}

\* C1: when two project create invocations of one name run concurrently and
\* no external call fails, one succeeds and the other ends with the 'already
\* exists' user error, and the state file holds one project of the name with
\* one main branch.
C1_OneCreateWins ==
  \A p, q \in Procs :
    ( /\ p # q /\ q \in overlap[p]
      /\ Finished(p) /\ Finished(q)
      /\ cmd[p].op = "project_create" /\ cmd[q] = cmd[p]
      /\ nfaults = 0 )
    => /\ {outcome[p].res, outcome[q].res} = {"ok", "user_error"}
       /\ IsDoc(primaryFile)
       /\ \E i \in DOMAIN primaryFile.projects :
            /\ ProjectsNamed(primaryFile, cmd[p].project) = {i}
            /\ Cardinality(PrimariesOf(primaryFile.projects[i])) = 1

\* What a successful create command added is in the state file.
Persisted(p) ==
  /\ IsDoc(primaryFile)
  /\ CASE cmd[p].op = "project_create" -> HasProjectNamed(primaryFile, cmd[p].project)
       [] cmd[p].op = "branch_create" ->
            BranchesNamed(primaryFile, buildNamespace(cmd[p].project, cmd[p].branch)) # {}
       [] cmd[p].op = "snapshot_create" ->
            \E s \in Range(primaryFile.snapshots) : s.zfsSnapshot \in made[p].snaps
       [] OTHER -> TRUE
CreateOps == {"project_create", "branch_create", "snapshot_create"}

\* C2: when two commands that add to the state run concurrently and both
\* succeed, the state file holds what both added.
C2_BothModificationsPersist ==
  \A p, q \in Procs :
    ( /\ p # q /\ q \in overlap[p]
      /\ Finished(p) /\ Finished(q)
      /\ outcome[p].res = "ok" /\ outcome[q].res = "ok"
      /\ cmd[p].op \in CreateOps /\ cmd[q].op \in CreateOps )
    => Persisted(p) /\ Persisted(q)

\* C3: at any moment at most one live controller process is between a
\* successful lock acquisition and its lock release, also when several
\* processes find and reclaim a lock file left by a dead process.
C3_MutualExclusion ==
  Cardinality({p \in Procs : InCriticalSection(p)}) <= 1

\* C4: whenever the primary state file is read, during a save or after the
\* saving process crashed between two steps, it holds one complete document,
\* never a partial or mixed one.
C4_PrimaryNeverPartial ==
  primaryFile # Partial

\* C5: after a branch create that failed, at whatever step, none of the
\* datasets, snapshots and containers the attempt created exists (the
\* environment did not fail a compensator).
C5_FailedCreateLeavesNothing ==
  \A p \in Procs :
    ( /\ Alone(p) /\ Failed(p) /\ cmd[p].op = "branch_create"
      /\ ~made[p].compensatorFailed )
    => /\ made[p].datasets \cap DatasetNames = {}
       /\ made[p].snaps \cap zsnaps = {}
       /\ ~\E c \in containers : c.name \in made[p].containers

\* C6: after a branch create that failed, also by an error raised inside the
\* final save, the state file is what it was before the command.
C6_FailedCreateKeepsStateFile ==
  \A p \in Procs :
    (Alone(p) /\ Failed(p) /\ cmd[p].op = "branch_create") => primaryFile = pre[p]

\* The state file after the last save of a reset: the branch's record names
\* the snapshot the command took.
ResetCompleted(p) ==
  \E b \in BranchesNamed(primaryFile, buildNamespace(cmd[p].project, cmd[p].branch)) :
    b.snapshotName \in made[p].snaps
\* The state file after the last save of a delete: the branch's record is gone.
DeleteCompleted(p) ==
  BranchesNamed(primaryFile, buildNamespace(cmd[p].project, cmd[p].branch)) = {}

\* C7: a branch reset or branch delete that failed part-way left the state
\* file as it was before the command or as the completed command leaves it,
\* never in between.
C7_NoIntermediateState ==
  \A p \in Procs :
    (Alone(p) /\ Failed(p) /\ cmd[p].op \in {"branch_reset", "branch_delete"})
    => \/ primaryFile = pre[p]
       \/ cmd[p].op = "branch_reset" /\ ResetCompleted(p)
       \/ cmd[p].op = "branch_delete" /\ DeleteCompleted(p)

\* C8: in every persisted state the parentBranchId of every non-primary
\* branch is the id of a branch of the same project.
C8_ParentsResolve ==
  IsDoc(primaryFile) =>
    \A i \in DOMAIN primaryFile.projects :
      LET branches == primaryFile.projects[i].branches IN
      \A k \in DOMAIN branches :
        ~branches[k].isPrimary =>
          \E l \in DOMAIN branches : branches[l].id = branches[k].parentBranchId

\* C9: in every persisted state every project has exactly one primary branch,
\* and that branch has no parent.
C9_OnePrimaryBranch ==
  IsDoc(primaryFile) =>
    \A i \in DOMAIN primaryFile.projects :
      LET project == primaryFile.projects[i] IN
      /\ Cardinality(PrimariesOf(project)) = 1
      /\ \A k \in PrimariesOf(project) : project.branches[k].parentBranchId = Null

\* A branch delete succeeded and left a project with its main branch and
\* another branch.
C9_Witness ==
  /\ IsDoc(primaryFile)
  /\ \E p \in Procs : Finished(p) /\ outcome[p].res = "ok" /\ cmd[p].op = "branch_delete"
  /\ \E i \in DOMAIN primaryFile.projects : Len(primaryFile.projects[i].branches) >= 2

\* C10: in every persisted state no two projects have the same name and no
\* two branches have the same namespaced name.
C10_UniqueNames ==
  IsDoc(primaryFile) =>
    /\ \A i, j \in DOMAIN primaryFile.projects :
         i # j => primaryFile.projects[i].name # primaryFile.projects[j].name
    /\ LET all == listAll(primaryFile) IN
       \A k, l \in DOMAIN all : k # l => all[k].name # all[l].name

\* A project create was refused because the state file has a project of the
\* name, and a branch was created beside the main branch.
C10_Witness ==
  /\ IsDoc(primaryFile)
  /\ \E p \in Procs :
       /\ Finished(p) /\ cmd[p].op = "project_create"
       /\ outcome[p].res = "user_error" /\ outcome[p].at = "pc_dataset"
       /\ HasProjectNamed(primaryFile, cmd[p].project)
  /\ \E b \in AllBranches(primaryFile) : ~b.isPrimary

C12_RollbackRunsRegistryInReverse ==
  \A p \in Procs :
    LET registered == made[p].registered
        executed == made[p].executed
        Reversed(r) == [i \in 1..Len(r) |-> r[Len(r) + 1 - i]]
    IN
    (cmd[p].op = "branch_create" /\ (pc[p] # "idle" \/ Finished(p))) =>
      /\ pc[p] = "bc_rollback" => registered = loc[p].rollback \o Reversed(executed)
      /\ pc[p] \notin {"bc_rollback", "idle"} => executed = <<>> /\ registered = loc[p].rollback
      /\ Failed(p) => /\ executed = Reversed(registered)
                      /\ outcome[p].at # "bc_rollback"
      /\ (Finished(p) /\ outcome[p].res = "ok") => executed = <<>>

\* A branch create failed after its container was registered and its three
\* compensators were run, destroySnapshot failing on the clone that depended
\* on the snapshot.
C12_Witness ==
  \E p \in Procs :
    /\ Failed(p) /\ cmd[p].op = "branch_create"
    /\ Len(made[p].executed) = 3
    /\ made[p].snaps \cap zsnaps # {}
    /\ made[p].datasets \cap DatasetNames = {}

\* C13: in a branch create that took its own snapshot, the destroySnapshot
\* compensator is in the registry from the snapshot on, before the clone is
\* attempted, and destroyDataset is registered after the clone; so a rollback
\* runs destroyDataset before destroySnapshot.
C13_SnapshotCompensatorBeforeClone ==
  \A p \in Procs :
    (cmd[p].op = "branch_create" /\ pc[p] # "idle") =>
      LET registry == loc[p].rollback
          executed == made[p].executed
      IN
      /\ (pc[p] = "bc_clone" /\ loc[p].createdSnapshot) =>
           /\ \E i \in DOMAIN registry :
                registry[i].do = "destroySnapshot" /\ registry[i].snap = loc[p].snap
           /\ \A i \in DOMAIN registry : registry[i].do # "destroyDataset"
      /\ \A i, j \in DOMAIN executed :
           (executed[i].do = "destroyDataset" /\ executed[j].do = "destroySnapshot") => i < j

\* C14: a branch record enters the state file only after the branch's dataset
\* has been mounted, its container started and waitForHealthy has returned:
\* a save that brings a branch name into state.json is the add step of the
\* create command of that branch, taken with the dataset mounted and the
\* container healthy, or it writes back a name that state.json held before.
C14_RecordedAfterHealthy ==
  [][\A b \in AllBranches(primaryFile') :
       (\A o \in AllBranches(primaryFile) : o.name # b.name) =>
         \/ \E q \in Procs : \E o \in AllBranches(pre[q]) : o.name = b.name
         \/ \E q \in Procs :
              /\ pc[q] = IF b.isPrimary THEN "pc_add" ELSE "bc_add"
              /\ b.name = buildNamespace(cmd[q].project,
                                         IF b.isPrimary THEN Main ELSE cmd[q].branch)
              /\ Alone(q) =>
                   /\ \E d \in datasets : d.name = b.zfsDataset /\ d.mounted
                   /\ \E c \in containers :
                        /\ c.name = getContainerName(b.name[1], b.name[2])
                        /\ c.status = "healthy"]_vars

\* A branch create ended well: its branch is in state.json, the dataset is
\* mounted and the container healthy.
C14_Witness ==
  \E p \in Procs :
    /\ Finished(p) /\ outcome[p].res = "ok" /\ cmd[p].op = "branch_create"
    /\ \E b \in AllBranches(primaryFile) :
         /\ b.name = buildNamespace(cmd[p].project, cmd[p].branch)
         /\ \E d \in datasets : d.name = b.zfsDataset /\ d.mounted
         /\ \E c \in containers :
              c.name = getContainerName(b.name[1], b.name[2]) /\ c.status = "healthy"

\* C15: a snapshot the snapshot service takes of a branch whose recorded
\* status is running is taken after a CHECKPOINT on the branch's container
\* completed; when the container is not found or the CHECKPOINT fails, the
\* command ends with an error and has created no snapshot.
C15_CheckpointBeforeSnapshot ==
  [][LET SnapshotOf == [bc_snapshot |-> "bc_checkpoint", br_snapshot |-> "br_checkpoint",
                        sc_snapshot |-> "sc_checkpoint"]
         Source(p) == IF pc[p] = "br_snapshot" THEN ParentBranch(p) ELSE MemBranch(p)
     IN
     \A p \in Procs :
       /\ (pc[p] \in DOMAIN SnapshotOf /\ made'[p].snaps # made[p].snaps) =>
            /\ Source(p).status = "running" => made[p].checkpointed
            /\ made'[p].snaps \ made[p].snaps \subseteq zsnaps' \ zsnaps
       /\ (pc[p] \in Range(SnapshotOf) /\ pc'[p] \in DOMAIN SnapshotOf) =>
            (Source(p).status = "running" => made'[p].checkpointed)
       /\ (pc[p] \in Range(SnapshotOf) /\ pc'[p] = "idle") =>
            /\ outcome'[p].res \in {"error", "user_error"}
            /\ made'[p].snaps = {} /\ zsnaps' = zsnaps]_vars

\* A snapshot create took its snapshot after the CHECKPOINT and ended well.
C15_Witness ==
  \E p \in Procs :
    /\ Finished(p) /\ outcome[p].res = "ok" /\ cmd[p].op = "snapshot_create"
    /\ made[p].checkpointed /\ made[p].snaps # {} /\ made[p].snaps \subseteq zsnaps

\* C16: CHECKPOINT is never skipped for a running container: a snapshot
\* create that takes the snapshot of a branch whose container runs at that
\* moment has executed a CHECKPOINT on it before, whatever status state.json
\* recorded when the command loaded it.
C16_CheckpointWheneverRunning ==
  [][\A p \in Procs :
       (/\ pc[p] = "sc_snapshot" /\ made'[p].snaps # made[p].snaps
        /\ IsRunning(getContainerName(cmd[p].project, cmd[p].branch)))
       => made[p].checkpointed]_vars

\* C17: the list branch delete collects is a post-order of the subtree of its
\* target (each branch of the subtree once, every branch before its parent,
\* the target last), and its loop destroys a child's dataset before the
\* dataset of the child's parent.
C17_ChildDestroyedBeforeParent ==
  [][\A p \in Procs :
       (cmd[p].op = "branch_delete" /\ pc[p] = "bd_destroy") =>
         LET list == loc[p].queue
             all == Range(MemProject(p).branches)
             RECURSIVE Subtree(_)
             Subtree(S) ==
               LET T == S \cup {b.id : b \in {c \in all : c.parentBranchId \in S}}
               IN  IF T = S THEN S ELSE Subtree(T)
             Dataset(b) == getDatasetName(b.name[1], b.name[2])
         IN
         /\ list[Len(list)].id = loc[p].bid
         /\ \A i, j \in DOMAIN list : list[i].id = list[j].id => i = j
         /\ {list[i].id : i \in DOMAIN list} = Subtree({loc[p].bid})
         /\ Range(list) \subseteq all
         /\ \A i, j \in DOMAIN list : list[i].parentBranchId = list[j].id => i < j
         /\ \A i, j \in DOMAIN list :
              (/\ list[i].parentBranchId = list[j].id
               /\ Dataset(list[j]) \in DatasetNames
               /\ Dataset(list[j]) \notin DatasetNames')
              => Dataset(list[i]) \notin DatasetNames]_vars

\* A forced delete of a branch with a child and a grandchild has destroyed
\* the datasets of both and is about to destroy the target's.
C17_Witness ==
  \E p \in Procs :
    /\ cmd[p].op = "branch_delete" /\ pc[p] = "bd_destroy"
    /\ Len(loc[p].queue) = 3 /\ loc[p].i = 3
    /\ loc[p].queue[1].parentBranchId = loc[p].queue[2].id
    /\ loc[p].queue[2].parentBranchId = loc[p].queue[3].id
    /\ \A i \in 1..2 :
         getDatasetName(loc[p].queue[i].name[1], loc[p].queue[i].name[2]) \notin DatasetNames
    /\ getDatasetName(cmd[p].project, cmd[p].branch) \in DatasetNames

\* C18: project delete destroys a child's dataset before the dataset of the
\* child's parent; for that, every non-primary branch stands later in the
\* branch list of its project than its parent, in state.json and in the
\* document the command loaded.
C18_ProjectDeleteChildFirst ==
  [][LET ParentsFirst(doc) ==
           \A q \in Range(doc.projects) : \A i, j \in DOMAIN q.branches :
             q.branches[i].parentBranchId = q.branches[j].id => j < i
         Dataset(b) == getDatasetName(b.name[1], b.name[2])
     IN
     /\ IsDoc(primaryFile') => ParentsFirst(primaryFile')
     /\ \A p \in Procs :
          (cmd[p].op = "project_delete" /\ pc[p] = "pd_destroy") =>
            LET list == loc[p].queue IN
            /\ ParentsFirst(mem[p])
            /\ \A i, j \in DOMAIN list :
                 (/\ list[i].parentBranchId = list[j].id
                  /\ Dataset(list[j]) \in DatasetNames
                  /\ Dataset(list[j]) \notin DatasetNames')
                 => Dataset(list[i]) \notin DatasetNames]_vars

\* A forced project delete of main, a child and a grandchild has destroyed
\* the datasets of the two and is about to destroy the main branch's.
C18_Witness ==
  \E p \in Procs :
    /\ cmd[p].op = "project_delete" /\ pc[p] = "pd_destroy"
    /\ Len(loc[p].queue) = 3 /\ loc[p].i = 3
    /\ loc[p].queue[1].parentBranchId = loc[p].queue[2].id
    /\ loc[p].queue[2].parentBranchId = loc[p].queue[3].id
    /\ \A i \in 1..2 :
         getDatasetName(loc[p].queue[i].name[1], loc[p].queue[i].name[2]) \notin DatasetNames
    /\ getDatasetName(cmd[p].project, Main) \in DatasetNames

\* C19: after a successful branch delete --force of B, state.json holds none
\* of the branches of the subtree of B and none of their snapshot records,
\* their containers and datasets are gone, and every other branch, project
\* and snapshot record is as it was when the command started.
C19_ForcedDeleteRemovesSubtree ==
  \A p \in Procs :
    (/\ Finished(p) /\ outcome[p].res = "ok"
     /\ cmd[p].op = "branch_delete" /\ cmd[p].force) =>
      LET before == pre[p]
          after == primaryFile
          target == buildNamespace(cmd[p].project, cmd[p].branch)
          all == AllBranches(before)
          RECURSIVE Subtree(_)
          Subtree(S) ==
            LET T == S \cup {b.id : b \in {c \in all : c.parentBranchId \in S}}
            IN  IF T = S THEN S ELSE Subtree(T)
          gone == Subtree({b.id : b \in {c \in all : c.name = target}})
          goneNames == {b.name : b \in {c \in all : c.id \in gone}}
          Kept(branches) == SelectSeq(branches, LAMBDA b : b.id \notin gone)
      IN
      /\ IsDoc(after)
      /\ \A b \in AllBranches(after) : b.id \notin gone /\ b.name \notin goneNames
      /\ \A i \in DOMAIN after.snapshots :
           /\ after.snapshots[i].branchId \notin gone
           /\ after.snapshots[i].branchName \notin goneNames
      /\ \A n \in goneNames :
           /\ ~getContainerByName(getContainerName(n[1], n[2]))
           /\ ~datasetExists(getDatasetName(n[1], n[2]))
      /\ after.projects = [i \in DOMAIN before.projects |->
                             [before.projects[i] EXCEPT !.branches = Kept(@)]]
      /\ after.snapshots = SelectSeq(before.snapshots, LAMBDA r : r.branchId \notin gone)

\* A forced delete of a branch that had a child and a snapshot record ended
\* well and left the main branch alone in the project.
C19_Witness ==
  \E p \in Procs :
    /\ Finished(p) /\ outcome[p].res = "ok"
    /\ cmd[p].op = "branch_delete" /\ cmd[p].force
    /\ \E b, c \in AllBranches(pre[p]) :
         /\ b.name = buildNamespace(cmd[p].project, cmd[p].branch)
         /\ c.parentBranchId = b.id
         /\ \E i \in DOMAIN pre[p].snapshots : pre[p].snapshots[i].branchId = b.id
    /\ Len(primaryFile.projects[1].branches) = 1
    /\ primaryFile.snapshots = <<>>

\* C20: the PITR selection returns a snapshot record of the source branch
\* created strictly before the recovery target and no earlier than any other
\* such record, and it fails with a user error exactly when the source branch
\* has no record created strictly before the target.
C20_SelectsNewestBeforeTarget ==
  \A p \in Procs :
    (cmd[p].op = "branch_create" /\ pc[p] # "pitr_select") =>
      LET source == buildNamespace(cmd[p].project, cmd[p].parent)
          candidates == {r \in Range(mem[p].snapshots) :
                           r.branchName = source /\ r.createdAt < cmd[p].pitr}
          selected == loc[p].selected
      IN
      /\ (pc[p] = "idle") <=> (candidates = {})
      /\ (pc[p] = "idle") <=> (outcome[p].res = "user_error")
      /\ pc[p] = "pitr_selected" =>
           /\ selected \in candidates
           /\ \A r \in candidates : r.createdAt <= selected.createdAt

\* The selection passed over a later record of the source branch, an equally
\* late record of another branch and an earlier one of the source branch.
C20_Witness ==
  \E p \in Procs :
    /\ pc[p] = "pitr_selected"
    /\ \E r \in Range(mem[p].snapshots) :
         r.branchName = loc[p].selected.branchName /\ r.createdAt >= cmd[p].pitr
    /\ \E r \in Range(mem[p].snapshots) :
         r.branchName # loc[p].selected.branchName /\ r.createdAt >= loc[p].selected.createdAt
                                                   /\ r.createdAt < cmd[p].pitr
    /\ \E r \in Range(mem[p].snapshots) :
         r.branchName = loc[p].selected.branchName /\ r.createdAt < loc[p].selected.createdAt

\* C21: a branch create --pitr never creates a filesystem snapshot and never
\* destroys the snapshot it selected, and the record of that snapshot stays
\* in state.json, whatever step the command fails at.
C21_PitrKeepsSelectedSnapshot ==
  [][\A p \in Procs :
       (cmd[p].op = "branch_create" /\ "pitr" \in DOMAIN cmd[p] /\ pc[p] # "idle") =>
         /\ zsnaps' \subseteq zsnaps
         /\ made'[p].snaps = {}
         /\ pc[p] # "bc_select" =>
              /\ ~loc[p].createdSnapshot
              /\ \A i \in DOMAIN loc[p].rollback : loc[p].rollback[i].do # "destroySnapshot"
              /\ loc[p].snap \in zsnaps => loc[p].snap \in zsnaps'
              /\ IsDoc(primaryFile')
              /\ \E i \in DOMAIN primaryFile'.snapshots :
                   primaryFile'.snapshots[i].zfsSnapshot = loc[p].snap]_vars

\* A branch create --pitr failed after its container was created and its
\* rollback ran; the snapshots the records name are still there.
C21_Witness ==
  \E p \in Procs :
    /\ Failed(p) /\ cmd[p].op = "branch_create" /\ "pitr" \in DOMAIN cmd[p]
    /\ Len(made[p].executed) = 2
    /\ made[p].datasets \cap DatasetNames = {}
    /\ primaryFile.snapshots # <<>>
    /\ \A i \in DOMAIN primaryFile.snapshots : primaryFile.snapshots[i].zfsSnapshot \in zsnaps

\* C22: a branch create --pitr whose target has no qualifying snapshot ends
\* with a user error at the selection, before any clone: no dataset,
\* snapshot or container is created or removed, the state file and its
\* backup are untouched and the command never reaches the WAL archive step.
C22_NoSnapshotNoClone ==
  [][\A p \in Procs :
       (pc[p] = "bc_select" /\ pc'[p] # pc[p]) =>
         LET source == buildNamespace(cmd[p].project, cmd[p].parent)
             candidates == {r \in Range(mem[p].snapshots) :
                              r.branchName = source /\ r.createdAt < cmd[p].pitr}
         IN
         IF candidates = {}
         THEN /\ pc'[p] = "idle"
              /\ outcome'[p].res = "user_error" /\ outcome'[p].at = "bc_select"
              /\ made'[p] = MadeNone
              /\ UNCHANGED <<datasets, zsnaps, containers, primaryFile, backupFile>>
              /\ primaryFile = pre[p]
         ELSE pc'[p] = "bc_clone"]_vars

\* A branch create --pitr was refused although the source branch has a
\* snapshot record: the record is not older than the target.
C22_Witness ==
  \E p \in Procs :
    /\ Finished(p) /\ outcome[p].at = "bc_select" /\ outcome[p].res = "user_error"
    /\ \E r \in Range(primaryFile.snapshots) :
         r.branchName = buildNamespace(cmd[p].project, cmd[p].parent)
         /\ r.createdAt >= cmd[p].pitr

\* C23: acquireLock terminates: its loop counter never passes maxAttempts and
\* every step of the loop advances it or leaves it, with the lock acquired or
\* with the locking error given to save's caller.
C23_AcquireTerminates ==
  [][\A p \in Procs :
       /\ attempt'[p] <= maxAttempts
       /\ (spc[p] \in Acquiring /\ spc'[p] # spc[p]) =>
            \/ spc'[p] \in Acquiring /\ LoopRank(p)' > LoopRank(p)
            \/ spc'[p] = "wpid" /\ lockFile' = LockOf(p, FALSE)
            \/ TimesOut(p) /\ attempt[p] = maxAttempts /\ spc'[p] = "idle"]_vars

\* C23: a process in acquireLock writes neither state.json nor its backup.
C23_AcquireLeavesStateFiles ==
  [][\A p \in Procs :
       (spc[p] \in Acquiring /\ spc'[p] # spc[p]) =>
          primaryFile' = primaryFile /\ backupFile' = backupFile]_vars

\* C23: the locking error is raised after attempts made while a live process
\* held the lock; the process that gets it has not removed a live holder's lock file.
C23_TimeoutAgainstLiveHolder ==
  [][\A p \in Procs :
       TimesOut(p) => /\ lockLog[p].deadWaits < maxAttempts
                      /\ ~lockLog[p].removedLive]_vars

\* C24: a load that succeeds has read a document that satisfies every
\* invariant of the data model; a document violating one makes load fail.
C24_LoadRejectsInvalid ==
  \A p \in Procs :
    (Finished(p) /\ cmd[p].op = "status" /\ outcome[p].res = "ok") =>
       DataModelInvariants(pre[p])

\* C24: what validate does check: duplicate names, names without a project
\* part, a project without a primary branch, a projectName that is not the
\* owning project's.
C24_LoadRejectsWhatValidateChecks ==
  \A p \in Procs :
    (Finished(p) /\ cmd[p].op = "status" /\ outcome[p].res = "ok") =>
       /\ UniqueNames(pre[p])
       /\ \A q \in Range(pre[p].projects) :
            /\ \E b \in Range(q.branches) : b.isPrimary
            /\ \A b \in Range(q.branches) : Len(b.name) = 2 /\ b.projectName = q.name

\* A load has failed on a document with a duplicate name.
C24_Witness ==
  \E p \in Procs :
    /\ pc[p] = "idle" /\ outcome[p] = [res |-> "error", at |-> "load", op |-> "status"]
    /\ ~UniqueNames(pre[p])

\* What exists and what the state expects, by name.
FilesystemNames == {d.name : d \in datasets} \ VolumeNames
PrefixedContainers ==
  {c.name : c \in containers} \cap {n \in {c.name : c \in containers} : Head(n) = CONTAINER_PREFIX}
Names(records) == {records[i].name : i \in DOMAIN records}

\* C25 as stated: the detector reports exactly the symmetric difference of
\* the names the state expects and the resources that exist.
C25_SymmetricDifference ==
  [][\A p \in Procs :
       (pc[p] = "cl_detect" /\ pc'[p] # "cl_detect") =>
          LET r == loc'[p].result
              ed == expectedDatasets(mem[p])
              ec == expectedContainers(mem[p])
          IN /\ Names(r.datasets) = (FilesystemNames \ ed) \cup (ed \ FilesystemNames)
             /\ Names(r.containers) = (PrefixedContainers \ ec) \cup (ec \ PrefixedContainers)]_vars

\* C25, amended: the detector reports exactly the filesystem datasets under
\* the base that no branch names as its zfsDataset, and exactly the
\* containers with the product prefix that are no branch's container; the
\* base and containers of another prefix are never reported, each resource
\* is reported once, and totalOrphans is the number of reported datasets plus
\* the number of reported containers.
C25_ExistingNotExpected ==
  [][\A p \in Procs :
       (pc[p] = "cl_detect" /\ pc'[p] # "cl_detect") =>
          LET r == loc'[p].result IN
          /\ Names(r.datasets) = FilesystemNames \ expectedDatasets(mem[p])
          /\ Names(r.containers) = PrefixedContainers \ expectedContainers(mem[p])
          /\ <<>> \notin Names(r.datasets)
          /\ Cardinality(Names(r.datasets)) = Len(r.datasets)
          /\ Cardinality(Names(r.containers)) = Len(r.containers)
          /\ r.totalOrphans = Len(r.datasets) + Len(r.containers)]_vars

\* The detector has reported an untracked dataset and an untracked container
\* while a volume, a container of another prefix and tracked resources exist.
C25_Witness ==
  \E p \in Procs :
    /\ loc[p].detected
    /\ Names(loc[p].result.datasets) = {<<"ghost">>}
    /\ Names(loc[p].result.containers) = {<<"velo", "ghost">>}
    /\ loc[p].result.totalOrphans = 2
    /\ pre[p].projects # <<>>
    /\ \E d \in datasets : d.name \in VolumeNames
    /\ \E c \in containers : Head(c.name) # CONTAINER_PREFIX
    /\ \E d \in datasets : d.name \in expectedDatasets(pre[p])

\* C27: cleanup attempts the removal of every detected orphan exactly once,
\* the containers in the order detected and then the datasets; a removal
\* that fails is collected as an error and the loops go on; the command
\* returns normally with the collected errors.
C27_EveryOrphanAttemptedOnce ==
  [][\A p \in Procs :
       LET r == loc[p].result
           Tagged(kind, records) ==
             [i \in DOMAIN records |-> [kind |-> kind, name |-> records[i].name]]
           InLoops == {"cl_containers", "cl_datasets"}
       IN
       /\ (pc[p] \in InLoops /\ pc'[p] # pc[p]) => pc'[p] \in InLoops \cup {"cl_summary"}
       /\ (pc[p] \in InLoops /\ loc'[p].attempts # loc[p].attempts) =>
            /\ Len(loc'[p].attempts) = Len(loc[p].attempts) + 1
            /\ LET a == loc'[p].attempts[Len(loc'[p].attempts)] IN
               \/ /\ loc'[p].errors = loc[p].errors
                  /\ IF a.kind = "container"
                     THEN a.name \notin {c.name : c \in containers'}
                     ELSE a.name \notin {d.name : d \in datasets'}
               \/ /\ loc'[p].errors = Append(loc[p].errors, a.name)
                  /\ UNCHANGED worldVars
       /\ (pc[p] = "cl_summary" /\ pc'[p] # pc[p]) =>
            /\ pc'[p] = "idle" /\ outcome'[p].res = "ok"
            /\ loc'[p] = loc[p]
            /\ loc[p].attempts = Tagged("container", r.containers) \o Tagged("dataset", r.datasets)]_vars

\* A cleanup has returned after its first removal failed and three more
\* were attempted, of both kinds.
C27_Witness ==
  \E p \in Procs :
    /\ Finished(p) /\ outcome[p].at = "cl_summary"
    /\ Len(loc[p].attempts) = 4
    /\ loc[p].attempts[1].kind = "container" /\ loc[p].attempts[4].kind = "dataset"
    /\ loc[p].errors # <<>> /\ loc[p].errors[1] = loc[p].attempts[1].name
    /\ getContainerByName(loc[p].attempts[1].name)
    /\ ~datasetExists(loc[p].attempts[4].name)

\* Every command started so far was the only one of its process and has
\* completed successfully, and no external call has failed.
AllCompletedSuccessfully ==
  /\ \A p \in Procs : pc[p] = "idle" /\ outcome[p].res \in {"ok", "none"}
  /\ ncmds = Cardinality({p \in Procs : outcome[p].res = "ok"})
  /\ nfaults = 0
NoOrphans ==
  /\ OrphansNow.datasets = <<>> /\ OrphansNow.containers = <<>>
  /\ OrphansNow.totalOrphans = 0 /\ OrphansNow.totalWastedBytes = 0

\* C26: after commands that all completed successfully the detector reports
\* no orphan dataset, no orphan container and no wasted bytes.
C26_NoOrphansAfterSuccess == AllCompletedSuccessfully => NoOrphans

\* C26, for one process: when its commands ran one after the other without a
\* failed external call and the last one succeeded, nothing is orphaned.
C26_NoOrphansSequential ==
  (/\ run.procs = {1} /\ nfaults = 0
   /\ pc[1] = "idle" /\ outcome[1].res \in {"ok", "none"}) => NoOrphans

\* The record of the branch with this id in a document.
BranchById(doc, id) == CHOOSE b \in AllBranches(doc) : b.id = id
SnapshotsOf(doc, name) == {r \in Range(doc.snapshots) : r.branchName = name}

\* C28: a successful branch reset changes nothing of the branch record but
\* snapshotName and status (and the size): id, name, projectName,
\* parentBranchId, isPrimary and port are those of the state the command
\* loaded; the recreated container runs bound to that host port; the state
\* holds no snapshot record of the reset branch.
C28_ResetKeepsIdentityAndPort ==
  [][\A p \in Procs :
       (pc[p] = "br_update" /\ pc'[p] = "idle" /\ outcome'[p].res = "ok") =>
          LET old == BranchById(pre[p], loc[p].bid)
              new == BranchById(primaryFile', loc[p].bid)
          IN /\ \E b \in AllBranches(primaryFile') : b.id = loc[p].bid
             /\ [new EXCEPT !.snapshotName = old.snapshotName, !.status = old.status] = old
             /\ new.status = "running" /\ new.snapshotName = loc[p].snap
             /\ \E c \in containers' :
                  /\ c.name = getContainerName(cmd[p].project, cmd[p].branch)
                  /\ c.status = "healthy" /\ c.port = old.port /\ c.bind = old.port
             /\ old.port # 0
             /\ SnapshotsOf(primaryFile', old.name) = {}]_vars

\* A reset has succeeded on a branch that had a snapshot record, whose
\* port was not the lowest free one, while another host port was free.
C28_Witness ==
  \E p \in Procs :
    /\ Finished(p) /\ cmd[p].op = "branch_reset" /\ outcome[p].res = "ok"
    /\ SnapshotsOf(pre[p], buildNamespace(cmd[p].project, cmd[p].branch)) # {}
    /\ \E c \in containers :
         /\ c.name = getContainerName(cmd[p].project, cmd[p].branch)
         /\ c.port = MaxPorts
         /\ (1..MaxPorts) \ UsedPorts # {}

\* C29: when project create has created the main dataset and then fails,
\* no dataset and no container it created remains and the state file holds
\* no record of the project.
C29_FailedProjectCreateLeavesNothing ==
  [][\A p \in Procs :
       (/\ cmd[p].op = "project_create" /\ pc[p] # "idle" /\ pc'[p] = "idle"
        /\ outcome'[p].res # "ok" /\ made[p].datasets # {}) =>
          /\ \A d \in datasets' : d.name \notin made[p].datasets
          /\ \A c \in containers' : c.name \notin made[p].containers
          /\ ~(IsDoc(primaryFile') /\ HasProjectNamed(primaryFile', cmd[p].project))]_vars

\* C30: when branch create returns successfully, the target dataset exists
\* and is mounted, the target container exists and runs, and the state file
\* holds the branch's record with isPrimary false, the source branch's id as
\* parentBranchId and the cloned snapshot's full name as snapshotName.
C30_BranchCreatePostcondition ==
  [][\A p \in Procs :
       (/\ cmd[p].op = "branch_create" /\ pc[p] = "bc_add" /\ pc'[p] = "idle"
        /\ outcome'[p].res = "ok") =>
          LET target == getDatasetName(cmd[p].project, cmd[p].branch)
              name == buildNamespace(cmd[p].project, cmd[p].branch)
              sources == {b \in AllBranches(pre[p]) :
                            b.name = buildNamespace(cmd[p].project, cmd[p].parent)}
          IN /\ \E d \in datasets' :
                  /\ d.name = target /\ d.mounted
                  /\ \E b \in AllBranches(primaryFile') :
                       /\ b.name = name /\ ~b.isPrimary
                       /\ \E src \in sources : b.parentBranchId = src.id
                       /\ b.snapshotName = d.origin /\ b.snapshotName # NoSnap
                       /\ b.zfsDataset = target
             /\ \E c \in containers' :
                  /\ c.name = getContainerName(cmd[p].project, cmd[p].branch)
                  /\ c.status \in {"running", "healthy"}]_vars

\* The same for one process running its commands one after the other.
C30_BranchCreatePostconditionSequential ==
  [][run.procs = {1} =>
       \A p \in Procs :
         (/\ cmd[p].op = "branch_create" /\ pc[p] = "bc_add" /\ pc'[p] = "idle"
          /\ outcome'[p].res = "ok") =>
            /\ \E d \in datasets' :
                 /\ d.name = getDatasetName(cmd[p].project, cmd[p].branch) /\ d.mounted
                 /\ \E b \in AllBranches(primaryFile') :
                      /\ b.name = buildNamespace(cmd[p].project, cmd[p].branch)
                      /\ ~b.isPrimary /\ b.parentBranchId = loc[p].bid
                      /\ b.snapshotName = d.origin /\ b.snapshotName # NoSnap
            /\ \E c \in containers' :
                 /\ c.name = getContainerName(cmd[p].project, cmd[p].branch)
                 /\ c.status \in {"running", "healthy"}]_vars

\* ---- C31
\* What the save that process p has just completed replaced at state.json.
Replaced(p) == lockLog[p].replaced

\* C31: after every successful save that replaced an existing state file, the
\* backup file holds exactly what was the state file immediately before the
\* save's rename.
C31_BackupHoldsPrevious ==
  [][\A p \in Procs :
       (/\ spc[p] = "release" /\ ~saveErr[p] /\ spc'[p] = "idle"
        /\ Replaced(p) # NoFile) => backupFile' = Replaced(p)]_vars

\* C31: a restore that follows a successful save of S2 over S1 leaves S1 in the
\* state file and in memory.
C31_RestoreReturnsPrevious ==
  [][\A p \in Procs :
       (/\ saveResult[p] = "ok" /\ Replaced(p) # NoFile
        /\ saveResult'[p] = "restored") =>
          /\ primaryFile' = Replaced(p)
          /\ mem'[p] = Replaced(p)]_vars

\* C31: without a backup file restore fails and the state file stays as it is.
C31_NoBackupNoRestore ==
  [][\A p \in Procs :
       (backupFile = NoFile /\ saveResult'[p] # saveResult[p] /\ spc[p] = "idle"
        /\ ncmds' # ncmds) =>
          /\ saveResult'[p] = "no_backup"
          /\ primaryFile' = primaryFile]_vars

\* ---- C32
\* Every branch recorded in the document has its dataset and its container.
RecordsBacked(doc, dss, cs) ==
  \A b \in AllBranches(doc) :
    /\ b.zfsDataset \in {d.name : d \in dss}
    /\ getContainerName(b.name[1], b.name[2]) \in {c.name : c \in cs}
\* Process p's command returns successfully in this step.
Succeeds(p) == pc[p] # "idle" /\ pc'[p] = "idle" /\ outcome'[p].res = "ok"

\* C32: after a successfully completed command every branch recorded in state
\* has an existing dataset of the recorded name and an existing container.
C32_RecordedBranchesBacked ==
  [][\A p \in Procs :
       Succeeds(p) => RecordsBacked(primaryFile', datasets', containers')]_vars

\* C32, the case the claim names: a successful branch reset --force, run by
\* one process after commands in which no external call failed.
C32_ForceResetKeepsBranchesBacked ==
  [][\A p \in Procs :
       (/\ Succeeds(p) /\ cmd[p].op = "branch_reset" /\ cmd[p].force
        /\ run.procs = {1} /\ nfaults = 0)
         => RecordsBacked(primaryFile', datasets', containers')]_vars

\* ---- C33
\* Every snapshot record of the document names a branch the document records.
SnapshotsReferToBranches(doc) ==
  \A s \in Range(doc.snapshots) :
    \E b \in AllBranches(doc) : b.id = s.branchId /\ b.name = s.branchName

\* C33: in the state file a successfully completed command leaves, every
\* snapshot record refers to a recorded branch (one process, no failed call).
C33_SnapshotsReferToBranches ==
  [][\A p \in Procs :
       (Succeeds(p) /\ run.procs = {1} /\ nfaults = 0 /\ IsDoc(primaryFile'))
         => SnapshotsReferToBranches(primaryFile')]_vars

\* C33: a successful project delete leaves no snapshot record of the project.
C33_ProjectDeleteRemovesSnapshots ==
  [][\A p \in Procs :
       (Succeeds(p) /\ cmd[p].op = "project_delete" /\ IsDoc(primaryFile'))
         => \A s \in Range(primaryFile'.snapshots) : s.projectName # cmd[p].project]_vars

\* ---- C34
\* The dataset and the container a branch record names.
DatasetOf(b, dss) == {d \in dss : d.name = b.zfsDataset}
ContainerOf(b, cs) == {c \in cs : c.name = getContainerName(b.name[1], b.name[2])}
Creating(p) == pc[p] # "idle" /\ cmd[p].op \in {"project_create", "branch_create"}

\* C34: as long as no external call has failed, no step of a project create
\* or branch create changes or removes the dataset or the container of a
\* branch that was recorded when it started.
C34_CreateKeepsOtherDatasetsAndContainers ==
  [][\A p \in Procs : (Creating(p) /\ nfaults' = 0) =>
       \A b \in AllBranches(pre[p]) :
         /\ DatasetOf(b, datasets') = DatasetOf(b, datasets)
         /\ ContainerOf(b, containers') = ContainerOf(b, containers)]_vars

\* C34: a project create or branch create deletes the WAL archive directory
\* of no branch that was recorded when it started.
C34_CreateKeepsOtherWalArchives ==
  \A p \in Procs : cmd[p].op \in {"project_create", "branch_create"} =>
    \A b \in AllBranches(pre[p]) : b.zfsDataset \notin made[p].walDeleted

\* ---- C35
\* C35: the dataset and the container of the branch a project create commits
\* to state exist when it commits: a cleanup running beside it has removed
\* neither.
C35_CleanupSparesInFlightResources ==
  [][\A p \in Procs :
       (Succeeds(p) /\ cmd[p].op = "project_create") =>
          /\ getDatasetName(cmd[p].project, Main) \in {d.name : d \in datasets'}
          /\ getContainerName(cmd[p].project, Main) \in {c.name : c \in containers'}]_vars

\* C35: cleanup removes no dataset and no container that a command of another
\* process has created and not given up.
C35_CleanupRemovesNothingInFlight ==
  [][\A q \in Procs : (pc[q] \in {"cl_containers", "cl_datasets"}) =>
       \A p \in Procs \ {q} : pc[p] # "idle" =>
         /\ \A n \in made[p].datasets : datasetExists(n) => n \in {d.name : d \in datasets'}
         /\ \A n \in made[p].containers :
              getContainerByName(n) => n \in {c.name : c \in containers'}]_vars

\* ---- C36
\* Process p's branch reset returns an error in this step, after its checks.
ResetFails(p) ==
  /\ cmd[p].op = "branch_reset" /\ pc[p] # "idle" /\ pc'[p] = "idle"
  /\ outcome'[p].res = "error"

\* C36: when a branch reset of one process fails after it has begun, the
\* branch still has a dataset of its dataset name and a container of its
\* container name.
C36_FailedResetKeepsResources ==
  [][\A p \in Procs : (ResetFails(p) /\ run.procs = {1}) =>
       /\ getDatasetName(cmd[p].project, cmd[p].branch) \in {d.name : d \in datasets'}
       /\ getContainerName(cmd[p].project, cmd[p].branch)
            \in {c.name : c \in containers'}]_vars

\* C36, the dataset alone.
C36_FailedResetKeepsDataset ==
  [][\A p \in Procs : (ResetFails(p) /\ run.procs = {1}) =>
       getDatasetName(cmd[p].project, cmd[p].branch) \in {d.name : d \in datasets'}]_vars

\* The document every call of the Promise.all serialises.
Serialised == {DocOf(t, MaxSaves) : t \in Procs}

SavesSerialized ==
  /\ Cardinality({p \in Procs : InCriticalSection(p)}) <= 1
  /\ \A p \in Procs : saveResult[p] # "lock_timeout"
  /\ (\A p \in Procs : spc[p] = "idle" /\ saveResult[p] = "ok")
       => primaryFile \in Serialised /\ tmpFile = NoFile /\ lockFile = NoFile

\* C37: the save() calls that branch delete starts together in one process
\* take the lock one after the other, none of them ends with the lock
\* timeout, and when all of them have returned the state file holds the
\* in-memory state and neither the lock file nor the temp file is left.
C37_ConcurrentSavesSerialized ==
  SavesSerialized

\* C37: the same, for a branch delete that finds no lock file left behind by a
\* process that died.
C37_SerializedWithoutStaleLock ==
  run.faults = 0 => SavesSerialized

C37_AllSavedAfterWaiting ==
  /\ run.faults = 0
  /\ \A p \in Procs : spc[p] = "idle" /\ saveResult[p] = "ok"
  /\ \E p \in Procs : attempt[p] > 0

\* save has returned to p, from acquireLock's loop or after the release.
Returned(p) == spc[p] = "idle" /\ nsaves[p] = MaxSaves
GotLock(p) == Returned(p) /\ saveResult[p] # "lock_timeout"

\* C38: with the lock file of a dead process in the way and no live holder,
\* every process that calls save gets the lock within its attempts and its
\* save returns, also when several processes reclaim the file at once.
C38_StaleLockNeverBlocks ==
  \A p \in Procs : (spc[p] = "try") ~> GotLock(p)

\* C38: no save ever gives up on the lock.
C38_NoLockTimeout ==
  \A p \in Procs : saveResult[p] # "lock_timeout"

\* C38: the same, when the dead process had written its pid into the file.
C38_WrittenStaleLockReclaimed ==
  lockFile = LockOf(StalePid, TRUE) => \A p \in Procs : (spc[p] = "try") ~> GotLock(p)

\* The filesystem snapshots named by the records that left the state file.
RemovedRecordSnapshots ==
  {r.zfsSnapshot : r \in Range(primaryFile.snapshots)}
    \ {r.zfsSnapshot : r \in Range(primaryFile'.snapshots)}
Removing(p) ==
  /\ cmd[p].op \in {"snapshot_delete", "snapshot_cleanup"}
  /\ pc[p] # "idle" /\ IsDoc(primaryFile) /\ IsDoc(primaryFile')

\* C39: a record that snapshot delete or snapshot cleanup removed names a
\* filesystem snapshot that has been destroyed: when the command ends, no
\* snapshot whose record it removed exists.
C39_RemovedRecordsAreDestroyed ==
  [][\A p \in Procs :
       (pc[p] # "idle" /\ pc'[p] = "idle"
        /\ cmd[p].op \in {"snapshot_delete", "snapshot_cleanup"}
        /\ IsDoc(pre[p]) /\ IsDoc(primaryFile'))
         => \A r \in Range(pre[p].snapshots) :
              r.id \in SnapshotIds(primaryFile') \/ r.zfsSnapshot \notin zsnaps']_vars

\* C39: snapshot delete takes a record out of the state file only after the
\* filesystem snapshot was destroyed.
C39_DeleteRemovesDestroyedOnly ==
  [][\A p \in Procs :
       (Removing(p) /\ cmd[p].op = "snapshot_delete")
         => RemovedRecordSnapshots \cap zsnaps' = {}]_vars

C39_SnapshotDeleted ==
  \E p \in Procs :
    /\ Finished(p) /\ outcome[p].op = "snapshot_delete" /\ outcome[p].res = "ok"
    /\ IsDoc(pre[p]) /\ IsDoc(primaryFile)
    /\ SnapshotIds(pre[p]) \ SnapshotIds(primaryFile) # {}

\* C39: when no external call failed for another reason, a snapshot that a
\* PITR branch was cloned from keeps its record through snapshot cleanup.
C39_ClonedSnapshotKeepsRecord ==
  [][\A p \in Procs :
       (pc[p] # "idle" /\ pc'[p] = "idle" /\ cmd[p].op = "snapshot_cleanup"
        /\ nfaults' = 0 /\ IsDoc(pre[p]) /\ IsDoc(primaryFile'))
         => \A r \in Range(pre[p].snapshots) :
              HasClones(r.zfsSnapshot)' => r.id \in SnapshotIds(primaryFile')]_vars

\* The time the filesystem snapshot was taken: zfs.createSnapshot runs in the
\* step that reads the clock for the snapshot's name.
TakenAt(snap) == snap.stamp
Recovering(p) == "pitr" \in DOMAIN cmd[p]

\* C40: the createdAt of a snapshot record is never earlier than the moment
\* its filesystem snapshot was taken.
C40_CreatedAtNotBeforeSnapshot ==
  \A doc \in {primaryFile} \cup {mem[q] : q \in Procs} :
    IsDoc(doc) => \A r \in Range(doc.snapshots) : TakenAt(r.zfsSnapshot) <= r.createdAt

\* C40: the snapshot that branch create --pitr selects for the recovery
\* target T was taken strictly before T.
C40_SelectedSnapshotPredatesTarget ==
  [][\A p \in Procs :
       (pc[p] = "bc_select" /\ pc'[p] = "bc_clone")
         => /\ loc'[p].snap \in {r.zfsSnapshot : r \in Range(mem[p].snapshots)}
            /\ TakenAt(loc'[p].snap) < cmd[p].pitr]_vars

\* A recovery goes on from a snapshot whose record was written at a later
\* reading of the clock than the snapshot's name.
C40_RecoveredFromSnapshot ==
  \E p \in Procs :
    /\ pc[p] = "bc_clone" /\ Recovering(p)
    /\ \E r \in Range(mem[p].snapshots) :
         r.zfsSnapshot = loc[p].snap /\ r.createdAt > TakenAt(r.zfsSnapshot)

====
